---- MODULE Spec2Model ----
(***************************************************************************)
(* Segment-level payload indices of the vector search engine.              *)
(*                                                                         *)
(*   Spec      the mutable map (keyword) index over its Gridstore backend  *)
(*             (mutable_map_index.rs)                                      *)
(*   SpecNull  the null/empty satellite index (mmap_null_index.rs)         *)
(*   SpecVector  the appendable vector storage                             *)
(*             (appendable_mmap_vector_storage.rs)                         *)
(*   SpecQuantize  the same storage with quantize in place of update_from  *)
(*   SpecCardinality  the constructors of CardinalityEstimation            *)
(*             (field_index/mod.rs)                                        *)
(*   SpecValidate  validate_vector_parameters (encoded_vectors.rs)         *)
(*   SpecStopwords  the stop-word filter of the full-text index            *)
(*             (stop_words/mod.rs)                                         *)
(*   SpecPlanner  the query planner against the per-point filter context   *)
(*             (nested_filtering_test.rs)                                  *)
(*                                                                         *)
(* Conventions                                                             *)
(*   - a point offset i is position i+1 of a TLA+ sequence;                *)
(*   - Option<T> is a sequence of length 0 (None) or 1 (Some(x));          *)
(*   - a BTreeSet<PointOffsetType> is the strictly ascending sequence of   *)
(*     its members, HashMap<K, V> is a total function into Option<V>;      *)
(*   - a usize is carried as its signed residue: a negative n stands for   *)
(*     2^64 + n (the value a wrapping subtraction leaves).                 *)
(* The RocksDB variant of the map index storage is feature-gated           *)
(* (#[cfg(feature = "rocksdb")]) and is not part of this model.            *)
(***************************************************************************)
EXTENDS Integers, Sequences, FiniteSets, TLC

(***************************************************************************)
(* Bounds of the model                                                     *)
(***************************************************************************)
\* largest point offset handed to the map index
MaxIdx == 1
\* cap on values_count, which repeated adds would otherwise grow for ever
MaxCount == 3
\* largest point offset handed to the null index
NullMaxId == 1
\* cap on the number of vectors a vector storage grows to
MaxVectors == 3
\* largest count handed to CardinalityEstimation::exact and ::unknown
MaxTotal == 5
\* cap on the primary clauses pushed onto one estimation
MaxClauses == 2
\* largest vector length and largest VectorParameters::dim handed to
\* validate_vector_parameters
MaxDim == 2
\* largest number of vectors and largest VectorParameters::count handed to
\* validate_vector_parameters
MaxData == 3
\* largest number of custom stop words handed to StopwordsFilter::new
MaxCustom == 2
\* largest number of points of a segment the planner is queried on
MaxPoints == 2
\* the flusher closures obtained from one map index
MaxClosures == 2
\* cap on the put_value and delete_value calls of one map index
MaxWrites == 2

\* the keys of the map index
Values == {"a", "b"}

Offsets == 0..MaxIdx

RECURSIVE SeqsUpTo(_, _)
SeqsUpTo(S, n) ==
  IF n = 0 THEN {<<>>}
  ELSE LET shorter == SeqsUpTo(S, n - 1)
       IN  shorter \cup {Append(s, x) : s \in {t \in shorter : Len(t) = n - 1}, x \in S}

\* the values lists a caller may pass: the empty one, and up to as many
\* entries as there are keys, so that a list may repeat a value
ValueLists == SeqsUpTo(Values, Cardinality(Values))

Elems(s) == {s[k] : k \in 1..Len(s)}

VARIABLES
  map,              \* HashMap<N::Owned, BTreeSet<PointOffsetType>>
  point_to_values,  \* Vec<Vec<N::Owned>>
  indexed_points,   \* usize
  values_count,     \* usize
  storage,          \* Storage::Gridstore(None | Some(_)): "None" or "Some"
  store,            \* the Gridstore's records: offset -> Option<Vec<N::Owned>>
  dirty,            \* the store holds writes that no flush has persisted yet
  open_args,        \* the arguments open_gridstore was called with
  last,             \* the last call and what it returned
  snap,             \* the index before the last add_many_to_map (Option)
  ever_added,       \* the values ever passed to add_many_to_map
  \* ---- MmapNullIndex
  has_values_slice, \* DynamicMmapFlags: Storage::has_values_slice
  is_null_slice,    \* DynamicMmapFlags: Storage::is_null_slice
  total_point_count,\* usize
  null_storage,     \* Option<Storage>: "None" or "Some"
  null_open_args,   \* the arguments MmapNullIndex::open was called with
  null_last,        \* the last call on the null index and what it returned
  null_field,       \* per offset: what the last add_point or remove_point
                    \* told of the indexed field, "unknown" before any
  null_touched,     \* per offset: "added" once add_point took it, "removed"
                    \* if only remove_point did, "untouched" otherwise
  \* ---- AppendableMmapVectorStorage
  vectors,          \* ChunkedMmapVectors<VectorElementType>
  deleted,          \* DynamicMmapFlags
  deleted_count,    \* usize
  quantized_vectors,\* Option<QuantizedVectorsStorage>
  vector_last,      \* the last call on the vector storage, the storage
                    \* before it and what it returned
  \* ---- the store of a map index shared with its flusher closures
  store_strong,     \* the holders of a strong reference to the
                    \* Arc<RwLock<Gridstore>>: the index, running closures
  store_lock,       \* the RwLock: the closures holding it for reading,
                    \* and whether it is held for writing
  owner,            \* the thread that owns the index: where it is, the
                    \* Option in Storage::Gridstore, what wipe returned
  closures,         \* per flusher closure: where its run is, the storage
                    \* it was made from, what it returned
  writes,           \* the put_value and delete_value calls completed
  \* ---- functions that keep no state of their own
  call              \* the last call of such a function: its name, its
                    \* arguments and what it returned

mapVars == <<map, point_to_values, indexed_points, values_count, storage, store,
             dirty, open_args, last, snap, ever_added>>

nullVars == <<has_values_slice, is_null_slice, total_point_count, null_storage,
              null_open_args, null_last, null_field, null_touched>>

vectorVars == <<vectors, deleted, deleted_count, quantized_vectors, vector_last>>

flusherVars == <<store_strong, store_lock, owner, closures, writes>>

vars == <<mapVars, nullVars, vectorVars, flusherVars, call>>

\* what the calls on the map index leave alone
nonMapVars == <<nullVars, vectorVars, flusherVars, call>>

\* what the calls on the null index leave alone
nonNullVars == <<mapVars, vectorVars, flusherVars, call>>

\* what the calls on the vector storage leave alone
nonVectorVars == <<mapVars, nullVars, flusherVars, call>>

\* what the index owner and the flusher closures leave alone
nonFlusherVars == <<mapVars, nullVars, vectorVars, call>>

\* what the calls of the stateless functions leave alone
nonCallVars == <<mapVars, nullVars, vectorVars, flusherVars>>

\* no stateless function was called yet
NoCall == [fn |-> "none"]

(***************************************************************************)
(* The in-memory part of a MutableMapIndex as one value                    *)
(***************************************************************************)
Index(m, p, ip, vc) ==
  [map |-> m, point_to_values |-> p, indexed_points |-> ip, values_count |-> vc]

\* Self { map: Default::default(), point_to_values: Vec::new(), 0, 0, .. }
EmptyIndex == Index([v \in Values |-> <<>>], <<>>, 0, 0)

Current == Index(map, point_to_values, indexed_points, values_count)

\* BTreeSet::insert as a Vec::push would do it: no order, no de-duplication
BTreeInsertAsPush(s, x) == Append(s, x)

\* BTreeSet::insert: ordered, a member is kept once
BTreeInsert(s, x) ==
  IF x \in Elems(s) THEN s
  ELSE LET lo == SelectSeq(s, LAMBDA y : y < x)
           hi == SelectSeq(s, LAMBDA y : y > x)
       IN  lo \o <<x>> \o hi

\* BTreeSet::remove
BTreeRemove(s, x) == SelectSeq(s, LAMBDA y : y # x)

\* self.map.entry(value).or_default().insert(idx)
MapInsert(m, v, idx) ==
  [m EXCEPT ![v] = IF @ = <<>> THEN <<BTreeInsert(<<>>, idx)>>
                   ELSE <<BTreeInsert(@[1], idx)>>]

\* if let Some(vals) = self.map.get_mut(value) { vals.remove(&idx); }
MapRemove(m, v, idx) ==
  [m EXCEPT ![v] = IF @ = <<>> THEN <<>> ELSE <<BTreeRemove(@[1], idx)>>]

\* point_to_values.resize_with(idx + 1, Vec::new) when len <= idx
Resize(p, idx) ==
  IF Len(p) <= idx THEN p \o [k \in 1..(idx + 1 - Len(p)) |-> <<>>] ELSE p

\* the loop of add_many_to_map with a forward list that keeps a value once
RECURSIVE PushAllOnce(_, _, _)
PushAllOnce(ix, idx, values) ==
  IF values = <<>> THEN ix
  ELSE LET v    == Head(values)
           next == [ix EXCEPT !.point_to_values[idx + 1] =
                                 IF v \in Elems(@) THEN @ ELSE Append(@, v),
                              !.map = MapInsert(@, v, idx)]
       IN  PushAllOnce(next, idx, Tail(values))

\* the loop of add_many_to_map over values: push to the forward list, insert
\* into the posting set
RECURSIVE PushAll(_, _, _)
PushAll(ix, idx, values) ==
  IF values = <<>> THEN ix
  ELSE LET v    == Head(values)
           next == [ix EXCEPT !.point_to_values[idx + 1] = Append(@, v),
                              !.map = MapInsert(@, v, idx)]
       IN  PushAll(next, idx, Tail(values))

\* the loop of remove_point over removed_values
RECURSIVE RemoveAll(_, _, _)
RemoveAll(m, idx, removed) ==
  IF removed = <<>> THEN m
  ELSE RemoveAll(MapRemove(m, Head(removed), idx), idx, Tail(removed))

(***************************************************************************)
(* The Gridstore behind the index: one record per offset, holding the list *)
(* of values in insertion order.                                           *)
(***************************************************************************)
NoRecords == [i \in Offsets |-> <<>>]

\* Gridstore::put_value(idx, &values)
PutValue(st, idx, values) == [st EXCEPT ![idx] = <<values>>]

\* Gridstore::delete_value(idx)
DeleteValue(st, idx) == [st EXCEPT ![idx] = <<>>]

\* what a directory that exists before open_gridstore may hold
InitialStores == {NoRecords, PutValue(NoRecords, 0, <<"a">>)}

(***************************************************************************)
(* open_gridstore and load                                                 *)
(***************************************************************************)
Opened(res, kind) == [res |-> res, storage |-> kind]

\* open_gridstore that creates the store whatever create_if_missing says
OpenGridstoreAlwaysCreates(path_exists, create_if_missing, store_opens) ==
  IF store_opens THEN Opened("Ok", "Some") ELSE Opened("Err", "None")

\* open_gridstore: the result, and the Option held by Storage::Gridstore of
\* the opened index. store_opens: Gridstore::open_or_create, or
\* Gridstore::open, returns Ok
OpenGridstore(path_exists, create_if_missing, store_opens) ==
  IF create_if_missing
  THEN IF store_opens THEN Opened("Ok", "Some") ELSE Opened("Err", "None")
  ELSE IF path_exists
  THEN IF store_opens THEN Opened("Ok", "Some") ELSE Opened("Err", "None")
  ELSE Opened("Ok", "None")

\* the closure load_gridstore hands to Gridstore::iter, for one record
RECURSIVE LoadRecord(_, _, _)
LoadRecord(ix, idx, values) ==
  IF values = <<>> THEN ix
  ELSE LET v       == Head(values)
           resized == Resize(ix.point_to_values, idx)
           next    == [map |-> MapInsert(ix.map, v, idx),
                       point_to_values |-> [resized EXCEPT ![idx + 1] = Append(@, v)],
                       indexed_points |-> IF resized[idx + 1] = <<>>
                                          THEN ix.indexed_points + 1
                                          ELSE ix.indexed_points,
                       values_count |-> ix.values_count + 1]
       IN  LoadRecord(next, idx, Tail(values))

\* Gridstore::iter: the records by ascending offset, from offset idx on
RECURSIVE IterFrom(_, _, _)
IterFrom(ix, st, idx) ==
  IF idx > MaxIdx THEN ix
  ELSE IF st[idx] = <<>> THEN IterFrom(ix, st, idx + 1)
  ELSE IterFrom(LoadRecord(ix, idx, st[idx][1]), st, idx + 1)

\* load_gridstore
LoadGridstore(ix, st) == IterFrom([ix EXCEPT !.indexed_points = 0], st, 0)

\* load: dispatch on the storage
Load(ix, kind, st) ==
  IF kind = "Some" THEN [ix |-> LoadGridstore(ix, st), res |-> "Ok(true)"]
  ELSE [ix |-> ix, res |-> "Ok(false)"]

(***************************************************************************)
(* add_many_to_map and remove_point                                        *)
(***************************************************************************)
\* add_many_to_map(idx, values); put_ok: Gridstore::put_value returns Ok.
\* Yields the index after the call, the result, and whether the store was
\* written.
AddManyToMap(ix, kind, idx, values, put_ok) ==
  IF values = <<>> THEN [ix |-> ix, res |-> "Ok", put |-> FALSE]
  ELSE
    LET counted == [ix EXCEPT !.values_count = @ + Len(values)]
        resized == [counted EXCEPT !.point_to_values = Resize(@, idx)]
        cleared == [resized EXCEPT !.point_to_values[idx + 1] = <<>>]
        pushed  == PushAll(cleared, idx, values)
    IN  IF kind = "None" THEN [ix |-> cleared, res |-> "Err", put |-> FALSE]
        ELSE IF ~put_ok THEN [ix |-> pushed, res |-> "Err", put |-> FALSE]
        ELSE [ix |-> [pushed EXCEPT !.indexed_points = @ + 1],
              res |-> "Ok", put |-> TRUE]

\* a usize subtraction a - b leaves the range of usize
Underflows(a, b) == a >= 0 /\ a < b

\* remove_point(idx); overflow_checks: the build panics on arithmetic
\* overflow (debug) instead of wrapping (release).
\* Yields the index after the call, the result, and whether the record of
\* idx was deleted from the store.
RemovePoint(ix, kind, idx, overflow_checks) ==
  IF Len(ix.point_to_values) <= idx THEN [ix |-> ix, res |-> "Ok", del |-> FALSE]
  ELSE
    LET removed == ix.point_to_values[idx + 1]
        taken   == [ix EXCEPT !.point_to_values[idx + 1] = <<>>]
        dec     == IF removed # <<>> THEN 1 ELSE 0
        under   == Underflows(ix.indexed_points, dec)
                     \/ Underflows(ix.values_count, Len(removed))
        after   == [taken EXCEPT !.indexed_points = @ - dec,
                                 !.values_count = @ - Len(removed),
                                 !.map = RemoveAll(@, idx, removed)]
    IN  IF under /\ overflow_checks THEN [ix |-> taken, res |-> "Panic", del |-> FALSE]
        ELSE IF kind = "Some" THEN [ix |-> after, res |-> "Ok", del |-> TRUE]
        ELSE [ix |-> after, res |-> "Err", del |-> FALSE]

(***************************************************************************)
(* Read accessors                                                          *)
(***************************************************************************)
\* values_count(idx): Option<usize>
ValuesCountAt(idx) ==
  IF idx < Len(point_to_values) THEN <<Len(point_to_values[idx + 1])>> ELSE <<>>

get_indexed_points == indexed_points

get_values_count == values_count

\* get_unique_values_count: self.map.len()
get_unique_values_count == Cardinality({v \in Values : map[v] # <<>>})

\* get_iterator(value): the offsets the iterator yields, in order
get_iterator(value) == IF map[value] = <<>> THEN <<>> ELSE map[value][1]

(***************************************************************************)
(* The map index as a state machine                                        *)
(***************************************************************************)
Call(op, idx, vals, res) == [op |-> op, idx |-> idx, vals |-> vals, res |-> res]

SetIndex(ix) ==
  /\ map' = ix.map
  /\ point_to_values' = ix.point_to_values
  /\ indexed_points' = ix.indexed_points
  /\ values_count' = ix.values_count

\* the index exists (open_gridstore returned it, no call panicked) and load
\* has been called on it, as open_gridstore's documentation asks
Ready == last.op # "open" /\ last.res # "Panic"

\* the values held by the records of a store
StoredValues(st) == UNION {Elems(st[i][1]) : i \in {j \in Offsets : st[j] # <<>>}}

InitMap ==
  /\ \E path_exists \in BOOLEAN, create_if_missing \in BOOLEAN,
        store_opens \in BOOLEAN :
       LET r == OpenGridstore(path_exists, create_if_missing, store_opens)
       IN  /\ open_args = [path_exists |-> path_exists,
                           create_if_missing |-> create_if_missing]
           /\ storage = r.storage
           /\ last = Call("open", 0, <<>>, r.res)
           /\ store \in (IF path_exists THEN InitialStores ELSE {NoRecords})
  /\ map = EmptyIndex.map
  /\ point_to_values = EmptyIndex.point_to_values
  /\ indexed_points = EmptyIndex.indexed_points
  /\ values_count = EmptyIndex.values_count
  /\ dirty = FALSE
  /\ snap = <<>>
  /\ ever_added = StoredValues(store)

\* load(), called right after the index was opened
DoLoad ==
  /\ last.op = "open" /\ last.res = "Ok"
  /\ UNCHANGED nonMapVars
  /\ LET r == Load(Current, storage, store)
     IN  /\ r.ix.values_count <= MaxCount
         /\ SetIndex(r.ix)
         /\ last' = Call("load", 0, <<>>, r.res)
  /\ snap' = <<>>
  /\ UNCHANGED <<storage, store, dirty, open_args, ever_added>>

\* add_many_to_map(idx, values). put_results: what Gridstore::put_value may
\* return (TRUE for Ok); track: keep the index before the call in snap
DoAdd(put_results, track) ==
  /\ Ready
  /\ UNCHANGED nonMapVars
  /\ \E idx \in Offsets, values \in ValueLists, put_ok \in put_results :
       /\ values_count + Len(values) <= MaxCount
       /\ LET r == AddManyToMap(Current, storage, idx, values, put_ok)
          IN  /\ SetIndex(r.ix)
              /\ store' = IF r.put THEN PutValue(store, idx, values) ELSE store
              /\ dirty' = (dirty \/ r.put)
              /\ last' = Call("add", idx, values, r.res)
              /\ snap' = IF track THEN <<Current>> ELSE <<>>
              /\ ever_added' = ever_added \cup Elems(values)
  /\ UNCHANGED <<storage, open_args>>

\* remove_point(idx)
DoRemove ==
  /\ Ready
  /\ UNCHANGED nonMapVars
  /\ \E idx \in Offsets, overflow_checks \in BOOLEAN :
       LET r == RemovePoint(Current, storage, idx, overflow_checks)
       IN  /\ r.ix.indexed_points >= -MaxCount
           /\ SetIndex(r.ix)
           /\ store' = IF r.del THEN DeleteValue(store, idx) ELSE store
           /\ dirty' = (dirty \/ r.del)
           /\ last' = Call("remove", idx, <<>>, r.res)
           /\ snap' = IF last.op = "add" /\ last.idx = idx /\ last.res = "Ok"
                      THEN snap ELSE <<>>
  /\ UNCHANGED <<storage, open_args, ever_added>>

\* the closure flusher() returns, run while the index is alive
DoFlush ==
  /\ Ready
  /\ UNCHANGED nonMapVars
  /\ dirty' = FALSE
  /\ last' = Call("flush", 0, <<>>, "Ok")
  /\ snap' = <<>>
  /\ UNCHANGED <<map, point_to_values, indexed_points, values_count, storage,
                 store, open_args, ever_added>>

\* the index is dropped and opened again on the same path, whose flushed
\* files exist when it held a store
DoReopen ==
  /\ Ready
  /\ UNCHANGED nonMapVars
  /\ ~dirty
  /\ \E store_opens \in BOOLEAN :
       LET path_exists == (storage = "Some")
           r == OpenGridstore(path_exists, FALSE, store_opens)
       IN  /\ open_args' = [path_exists |-> path_exists, create_if_missing |-> FALSE]
           /\ storage' = r.storage
           /\ last' = Call("open", 0, <<>>, r.res)
  /\ SetIndex(EmptyIndex)
  /\ snap' = <<>>
  /\ UNCHANGED <<store, dirty, ever_added>>

(***************************************************************************)
(* serde_json::Value, as far as add_point looks into it: the kind of the   *)
(* value and, for an array, the kinds of its elements                      *)
(***************************************************************************)
Json(kind, elems) == [kind |-> kind, elems |-> elems]

\* the arrays: empty, of only nulls, of no null, mixed
Arrays == {<<>>, <<"Null">>, <<"String">>, <<"String", "Null">>}

JsonValues ==
  {Json(k, <<>>) : k \in {"Null", "Bool", "Number", "String", "Object"}}
    \cup {Json("Array", e) : e \in Arrays}

\* payload: &[&Value], the values found at the indexed field of one point:
\* none, one, or two of them
Payloads == {<<>>} \cup {<<v>> : v \in JsonValues}
              \cup {<<v, w>> : v \in JsonValues, w \in JsonValues}

\* the indexed field has at least one non-null value, a non-empty array
\* counting as a value and a null not
FieldHasValues(payload) ==
  \E k \in 1..Len(payload) :
    /\ payload[k].kind # "Null"
    /\ payload[k].kind = "Array" => payload[k].elems # <<>>

\* some value of the payload is null or is an array with a null element
FieldIsNull(payload) ==
  \E k \in 1..Len(payload) :
    \/ payload[k].kind = "Null"
    \/ payload[k].kind = "Array" /\ "Null" \in Elems(payload[k].elems)

(***************************************************************************)
(* DynamicMmapFlags: a bit-vector that grows on demand, new bits zero      *)
(***************************************************************************)
\* DynamicMmapFlags::get(key): false beyond the length
FlagsGet(flags, key) == key < Len(flags) /\ flags[key + 1]

\* DynamicMmapFlags::set_with_resize(key, value)
SetWithResize(flags, key, value) ==
  LET grown == IF key < Len(flags) THEN flags
               ELSE flags \o [k \in 1..(key + 1 - Len(flags)) |-> FALSE]
  IN  [grown EXCEPT ![key + 1] = value]

\* DynamicMmapFlags::count_flags()
CountFlags(flags) == Cardinality({k \in 1..Len(flags) : flags[k]})

(***************************************************************************)
(* MmapNullIndex                                                           *)
(***************************************************************************)
Flags(is_null, has_values) == [is_null |-> is_null, has_values |-> has_values]

\* one arm of the match in add_point that counts every array as a value
ScanValueCountsEmptyArray(f, value) ==
  CASE value.kind = "Null"  -> [f EXCEPT !.is_null = TRUE]
    [] value.kind = "Array" ->
         Flags(f.is_null \/ (\E k \in 1..Len(value.elems) : value.elems[k] = "Null"),
               TRUE)
    [] OTHER -> [f EXCEPT !.has_values = TRUE]

\* the match of add_point with the String arm setting nothing
ScanValueIgnoresString(f, value) ==
  CASE value.kind = "Null"   -> [f EXCEPT !.is_null = TRUE]
    [] value.kind = "String" -> f
    [] value.kind = "Array"  ->
         Flags(f.is_null \/ (\E k \in 1..Len(value.elems) : value.elems[k] = "Null"),
               f.has_values \/ value.elems # <<>>)
    [] OTHER -> [f EXCEPT !.has_values = TRUE]

\* the match of add_point on one value of the payload
ScanValue(f, value) ==
  CASE value.kind = "Null"   -> [f EXCEPT !.is_null = TRUE]
    [] value.kind = "Bool"   -> [f EXCEPT !.has_values = TRUE]
    [] value.kind = "Number" -> [f EXCEPT !.has_values = TRUE]
    [] value.kind = "String" -> [f EXCEPT !.has_values = TRUE]
    [] value.kind = "Array"  ->
         Flags(f.is_null \/ (\E k \in 1..Len(value.elems) : value.elems[k] = "Null"),
               f.has_values \/ value.elems # <<>>)
    [] value.kind = "Object" -> [f EXCEPT !.has_values = TRUE]

\* the loop of add_point left as soon as either flag is set
RECURSIVE ScanPayloadStopsAtFirstFlag(_, _)
ScanPayloadStopsAtFirstFlag(f, payload) ==
  IF payload = <<>> THEN f
  ELSE LET g == ScanValue(f, Head(payload))
       IN  IF g.is_null \/ g.has_values THEN g
           ELSE ScanPayloadStopsAtFirstFlag(g, Tail(payload))

\* the loop of add_point over the payload, left once both flags are set
RECURSIVE ScanPayload(_, _)
ScanPayload(f, payload) ==
  IF payload = <<>> THEN f
  ELSE LET g == ScanValue(f, Head(payload))
       IN  IF g.is_null /\ g.has_values THEN g ELSE ScanPayload(g, Tail(payload))

\* MmapNullIndex::open: the Option<Storage> of the opened index
NullOpen(dir_exists, create_if_missing) ==
  IF ~dir_exists /\ ~create_if_missing THEN "None" ELSE "Some"

\* a call on the null index: what it was, what it returned, and of its
\* payload the number of values and what FieldHasValues and FieldIsNull say
NullCall(op, id, payload, res) ==
  [op |-> op, id |-> id, res |-> res, payload_len |-> Len(payload),
   field_has_values |-> FieldHasValues(payload),
   field_is_null |-> FieldIsNull(payload)]

\* values_count(id)
NullValuesCount(id) ==
  IF null_storage = "Some" /\ FlagsGet(has_values_slice, id) THEN 1 ELSE 0

\* values_is_empty(id)
\* values_is_empty written with is_some_and in place of is_none_or
ValuesIsEmptySomeAnd(id) ==
  null_storage = "Some" /\ ~FlagsGet(has_values_slice, id)

values_is_empty(id) == null_storage = "None" \/ ~FlagsGet(has_values_slice, id)

\* values_is_null(id)
values_is_null(id) == null_storage = "Some" /\ FlagsGet(is_null_slice, id)

\* PayloadFieldIndex::load: Ok(self.storage.is_some())
NullLoad == IF null_storage = "Some" THEN "Ok(true)" ELSE "Ok(false)"

\* the bump of total_point_count left out
KeepFirst(a, b) == a

\* std::cmp::max
Max(a, b) == IF a >= b THEN a ELSE b

NullIds == 0..NullMaxId

\* FieldCondition, of which the null index reads is_empty and is_null
\* (Option<bool>)
FieldCondition(is_empty, is_null) == [is_empty |-> is_empty, is_null |-> is_null]

\* FieldCondition::new_is_empty(key, is_empty)
NewIsEmpty(is_empty) == FieldCondition(<<is_empty>>, <<>>)

\* FieldCondition::new_is_null(key, is_null)
NewIsNull(is_null) == FieldCondition(<<>>, <<is_null>>)

\* DynamicMmapFlags::iter_trues(): the offsets of the set flags, ascending
RECURSIVE IterTruesFrom(_, _)
IterTruesFrom(flags, key) ==
  IF key >= Len(flags) THEN <<>>
  ELSE (IF flags[key + 1] THEN <<key>> ELSE <<>>) \o IterTruesFrom(flags, key + 1)

IterTrues(flags) == IterTruesFrom(flags, 0)

\* (from..to).filter(|&id| !flags.get(id))
RECURSIVE RangeWithoutFlag(_, _, _)
RangeWithoutFlag(from, to, flags) ==
  IF from >= to THEN <<>>
  ELSE (IF ~FlagsGet(flags, from) THEN <<from>> ELSE <<>>)
         \o RangeWithoutFlag(from + 1, to, flags)

\* filter with the two ranges swapped between is_empty = true and false
FilterEmptySwapped(condition) ==
  IF null_storage = "None" THEN <<>>
  ELSE IF condition.is_empty # <<>>
  THEN IF condition.is_empty[1]
       THEN <<IterTrues(has_values_slice)>>
       ELSE <<RangeWithoutFlag(0, total_point_count, has_values_slice)>>
  ELSE IF condition.is_null # <<>>
  THEN IF condition.is_null[1]
       THEN <<IterTrues(is_null_slice)>>
       ELSE <<RangeWithoutFlag(0, total_point_count, is_null_slice)>>
  ELSE <<>>

\* filter whose is_empty = true range stops one offset early
FilterShortRange(condition) ==
  IF null_storage = "None" THEN <<>>
  ELSE IF condition.is_empty # <<>>
  THEN IF condition.is_empty[1]
       THEN <<RangeWithoutFlag(0, total_point_count - 1, has_values_slice)>>
       ELSE <<IterTrues(has_values_slice)>>
  ELSE IF condition.is_null # <<>>
  THEN IF condition.is_null[1]
       THEN <<IterTrues(is_null_slice)>>
       ELSE <<RangeWithoutFlag(0, total_point_count, is_null_slice)>>
  ELSE <<>>

\* filter(condition): Option of the offsets the iterator yields, in order
Filter(condition) ==
  IF null_storage = "None" THEN <<>>
  ELSE IF condition.is_empty # <<>>
  THEN IF condition.is_empty[1]
       THEN <<RangeWithoutFlag(0, total_point_count, has_values_slice)>>
       ELSE <<IterTrues(has_values_slice)>>
  ELSE IF condition.is_null # <<>>
  THEN IF condition.is_null[1]
       THEN <<IterTrues(is_null_slice)>>
       ELSE <<RangeWithoutFlag(0, total_point_count, is_null_slice)>>
  ELSE <<>>

\* CardinalityEstimation
CardinalityEstimation(primary_clauses, min, exp, max) ==
  [primary_clauses |-> primary_clauses, min |-> min, exp |-> exp, max |-> max]

\* CardinalityEstimation::exact(count)
Exact(count) == CardinalityEstimation(<<>>, count, count, count)

\* unknown with the expectation rounded up instead of down
UnknownRoundsUp(total) == CardinalityEstimation(<<>>, 0, (total + 1) \div 2, total)

\* CardinalityEstimation::unknown(total)
Unknown(total) == CardinalityEstimation(<<>>, 0, total \div 2, total)

\* CardinalityEstimation::with_primary_clause(clause)
WithPrimaryClause(estimation, clause) ==
  [estimation EXCEPT !.primary_clauses = Append(@, clause)]

\* usize::saturating_sub
SaturatingSub(a, b) == IF a >= b THEN a - b ELSE 0

\* { min: 0, exp: 2 * estimated / 3, max: estimated, primary_clauses: [clause] }
Estimated(estimated, clause) ==
  CardinalityEstimation(<<clause>>, 0, (2 * estimated) \div 3, estimated)

\* estimate_cardinality that takes the exact branch for is_empty = true and
\* the estimated branch for is_empty = false
EstimateCardinalityEmptySwapped(condition) ==
  IF null_storage = "None" THEN <<>>
  ELSE IF condition.is_empty # <<>>
  THEN IF condition.is_empty[1]
       THEN <<WithPrimaryClause(Exact(CountFlags(has_values_slice)),
                                NewIsEmpty(TRUE))>>
       ELSE <<Estimated(SaturatingSub(total_point_count,
                                      CountFlags(has_values_slice)),
                        NewIsEmpty(FALSE))>>
  ELSE IF condition.is_null # <<>>
  THEN IF condition.is_null[1]
       THEN <<WithPrimaryClause(Exact(CountFlags(is_null_slice)),
                                NewIsNull(TRUE))>>
       ELSE <<Estimated(SaturatingSub(total_point_count,
                                      CountFlags(is_null_slice)),
                        NewIsNull(FALSE))>>
  ELSE <<>>

\* estimate_cardinality that counts the has_values flags for is_null too
EstimateCardinalityWrongSlice(condition) ==
  IF null_storage = "None" THEN <<>>
  ELSE IF condition.is_empty # <<>>
  THEN IF condition.is_empty[1]
       THEN <<Estimated(SaturatingSub(total_point_count,
                                      CountFlags(has_values_slice)),
                        NewIsEmpty(TRUE))>>
       ELSE <<WithPrimaryClause(Exact(CountFlags(has_values_slice)),
                                NewIsEmpty(FALSE))>>
  ELSE IF condition.is_null # <<>>
  THEN IF condition.is_null[1]
       THEN <<WithPrimaryClause(Exact(CountFlags(has_values_slice)),
                                NewIsNull(TRUE))>>
       ELSE <<Estimated(SaturatingSub(total_point_count,
                                      CountFlags(has_values_slice)),
                        NewIsNull(FALSE))>>
  ELSE <<>>

\* estimate_cardinality that leaves the primary clause out of the exact
\* is_empty = false estimation
EstimateCardinalityNoClause(condition) ==
  IF null_storage = "None" THEN <<>>
  ELSE IF condition.is_empty # <<>>
  THEN IF condition.is_empty[1]
       THEN <<Estimated(SaturatingSub(total_point_count,
                                      CountFlags(has_values_slice)),
                        NewIsEmpty(TRUE))>>
       ELSE <<Exact(CountFlags(has_values_slice))>>
  ELSE IF condition.is_null # <<>>
  THEN IF condition.is_null[1]
       THEN <<WithPrimaryClause(Exact(CountFlags(is_null_slice)),
                                NewIsNull(TRUE))>>
       ELSE <<Estimated(SaturatingSub(total_point_count,
                                      CountFlags(is_null_slice)),
                        NewIsNull(FALSE))>>
  ELSE <<>>

\* estimate_cardinality(condition): Option<CardinalityEstimation>
EstimateCardinality(condition) ==
  IF null_storage = "None" THEN <<>>
  ELSE IF condition.is_empty # <<>>
  THEN IF condition.is_empty[1]
       THEN <<Estimated(SaturatingSub(total_point_count,
                                      CountFlags(has_values_slice)),
                        NewIsEmpty(TRUE))>>
       ELSE <<WithPrimaryClause(Exact(CountFlags(has_values_slice)),
                                NewIsEmpty(FALSE))>>
  ELSE IF condition.is_null # <<>>
  THEN IF condition.is_null[1]
       THEN <<WithPrimaryClause(Exact(CountFlags(is_null_slice)),
                                NewIsNull(TRUE))>>
       ELSE <<Estimated(SaturatingSub(total_point_count,
                                      CountFlags(is_null_slice)),
                        NewIsNull(FALSE))>>
  ELSE <<>>

\* what add_point was last told about the indexed field of a point: "absent"
\* for no value, "empty_arrays" for values that are all empty arrays,
\* "values" otherwise
FieldOf(payload) ==
  IF payload = <<>> THEN "absent"
  ELSE IF \A k \in 1..Len(payload) :
            payload[k].kind = "Array" /\ payload[k].elems = <<>>
  THEN "empty_arrays"
  ELSE "values"

\* the flag files a has_values directory that exists before open may hold;
\* open is given the total number of points in the segment, so the files
\* hold no flag at or above it
InitialFlags == {<<>>, <<TRUE>>}

InitNull ==
  /\ \E dir_exists \in BOOLEAN, create_if_missing \in BOOLEAN,
        count \in {0, NullMaxId + 1} :
       /\ null_open_args = [dir_exists |-> dir_exists,
                            create_if_missing |-> create_if_missing,
                            total_point_count |-> count]
       /\ null_storage = NullOpen(dir_exists, create_if_missing)
       /\ total_point_count = count
       /\ has_values_slice \in (IF dir_exists
                                THEN {f \in InitialFlags : Len(f) <= count}
                                ELSE {<<>>})
  /\ is_null_slice = [k \in 1..Len(has_values_slice) |-> FALSE]
  /\ null_last = NullCall("open", 0, <<>>, "Ok")
  /\ null_touched = [id \in NullIds |-> "untouched"]
  /\ null_field = [id \in NullIds |-> "unknown"]

\* add_point(id, payload)
DoNullAdd ==
  /\ UNCHANGED nonNullVars
  /\ \E id \in NullIds, payload \in Payloads :
       IF null_storage = "None"
       THEN /\ null_last' = NullCall("add_point", id, payload, "Err")
            /\ UNCHANGED <<has_values_slice, is_null_slice, total_point_count,
                           null_storage, null_open_args, null_touched,
                           null_field>>
       ELSE LET f == ScanPayload(Flags(FALSE, FALSE), payload)
            IN  /\ has_values_slice' = SetWithResize(has_values_slice, id, f.has_values)
                /\ is_null_slice' = SetWithResize(is_null_slice, id, f.is_null)
                /\ total_point_count' = Max(total_point_count, id + 1)
                /\ null_last' = NullCall("add_point", id, payload, "Ok")
                /\ null_touched' = [null_touched EXCEPT ![id] = "added"]
                /\ null_field' = [null_field EXCEPT ![id] = FieldOf(payload)]
                /\ UNCHANGED <<null_storage, null_open_args>>

\* remove_point(id)
DoNullRemove ==
  /\ UNCHANGED nonNullVars
  /\ \E id \in NullIds :
       /\ null_last' = NullCall("remove_point", id, <<>>, "Ok")
       /\ IF null_storage = "None"
          THEN UNCHANGED <<has_values_slice, is_null_slice, total_point_count,
                           null_storage, null_open_args, null_touched,
                           null_field>>
          ELSE /\ has_values_slice' = SetWithResize(has_values_slice, id, FALSE)
               /\ is_null_slice' = SetWithResize(is_null_slice, id, FALSE)
               /\ total_point_count' = Max(total_point_count, id + 1)
               /\ null_touched' =
                    [null_touched EXCEPT
                       ![id] = IF @ = "untouched" THEN "removed" ELSE @]
               /\ null_field' = [null_field EXCEPT ![id] = "absent"]
               /\ UNCHANGED <<null_storage, null_open_args>>

(***************************************************************************)
(* AppendableMmapVectorStorage                                             *)
(***************************************************************************)
\* the vectors stored; two are enough to tell an overwrite from a copy
VectorValues == {"x", "y"}

\* vectors, deleted and deleted_count of a storage as one value
VectorStorage(v, d, c) == [vectors |-> v, deleted |-> d, deleted_count |-> c]

CurrentStorage == VectorStorage(vectors, deleted, deleted_count)

\* ChunkedMmapVectors::insert(key, vector): refused above len, an append at
\* len, an overwrite below
ChunkedInsert(v, key, vector) ==
  IF key > Len(v) THEN [vectors |-> v, res |-> "Err"]
  ELSE IF key = Len(v) THEN [vectors |-> Append(v, vector), res |-> "Ok"]
  ELSE [vectors |-> [v EXCEPT ![key + 1] = vector], res |-> "Ok"]

\* DynamicMmapFlags::set_len(len): new bits zero
FlagsSetLen(flags, len) ==
  IF len <= Len(flags) THEN SubSeq(flags, 1, len)
  ELSE flags \o [k \in 1..(len - Len(flags)) |-> FALSE]

\* DynamicMmapFlags::set(key, value) on a key below the length
FlagsSet(flags, key, value) == [flags EXCEPT ![key + 1] = value]

\* the loop of open_appendable_memmap_vector_storage counting the deleted
\* flags of the stored vectors
RECURSIVE CountDeleted(_, _, _)
CountDeleted(flags, i, num_vectors) ==
  IF i >= num_vectors THEN 0
  ELSE (IF FlagsGet(flags, i) THEN 1 ELSE 0) + CountDeleted(flags, i + 1, num_vectors)

\* open_appendable_memmap_vector_storage over the files found at path
OpenAppendable(v, d) == VectorStorage(v, d, CountDeleted(d, 0, Len(v)))

\* set_deleted that counts every call with deleted = true
SetDeletedCountsAgain(st, key, flag) ==
  IF Len(st.vectors) <= key THEN [st |-> st, res |-> "Ok", previous |-> FALSE]
  ELSE LET grown == IF Len(st.deleted) <= key
                    THEN FlagsSetLen(st.deleted, key + 1) ELSE st.deleted
           previous == grown[key + 1]
       IN  [st |-> VectorStorage(st.vectors, FlagsSet(grown, key, flag),
                           IF flag THEN st.deleted_count + 1
                           ELSE st.deleted_count),
            res |-> "Ok", previous |-> previous]

\* set_deleted that returns the flag it has set
SetDeletedReturnsNew(st, key, flag) ==
  IF Len(st.vectors) <= key THEN [st |-> st, res |-> "Ok", previous |-> FALSE]
  ELSE LET grown == IF Len(st.deleted) <= key
                    THEN FlagsSetLen(st.deleted, key + 1) ELSE st.deleted
           previous == grown[key + 1]
           count == IF ~previous /\ flag THEN st.deleted_count + 1
                    ELSE IF previous /\ ~flag THEN st.deleted_count - 1
                    ELSE st.deleted_count
       IN  [st |-> VectorStorage(st.vectors, FlagsSet(grown, key, flag), count),
            res |-> "Ok", previous |-> flag]

\* set_deleted(key, deleted): the storage after it and the previous flag
SetDeleted(st, key, flag) ==
  IF Len(st.vectors) <= key THEN [st |-> st, res |-> "Ok", previous |-> FALSE]
  ELSE LET grown == IF Len(st.deleted) <= key
                    THEN FlagsSetLen(st.deleted, key + 1) ELSE st.deleted
           previous == grown[key + 1]
           count == IF ~previous /\ flag THEN st.deleted_count + 1
                    ELSE IF previous /\ ~flag THEN st.deleted_count - 1
                    ELSE st.deleted_count
       IN  [st |-> VectorStorage(st.vectors, FlagsSet(grown, key, flag), count),
            res |-> "Ok", previous |-> previous]

\* another storage update_from copies from: its vectors and deleted flags
OtherStorages ==
  {VectorStorage(<<"x", "y">>, d, CountFlags(d)) :
     d \in {<<>>, <<TRUE>>, <<FALSE, TRUE>>, <<TRUE, TRUE>>}}

\* other_ids: offsets of the other storage, in any order, with repeats
OtherIds == SeqsUpTo({0, 1}, 2)

\* update_from that puts back what the storage held when the stop flag is
\* seen
RECURSIVE UpdateFromRollsBack(_, _, _, _, _)
UpdateFromRollsBack(st, other, other_ids, stopped_at, start) ==
  IF other_ids = <<>>
  THEN [st |-> st, res |-> "Ok", range |-> <<start.n, Len(st.vectors)>>]
  ELSE IF stopped_at = 0
  THEN [st |-> start.st, res |-> "Err", range |-> <<>>]
  ELSE LET point_id == Head(other_ids)
           new_id == Len(st.vectors)
           pushed == [st EXCEPT !.vectors = Append(@, other.vectors[point_id + 1])]
           marked == SetDeleted(pushed, new_id, FlagsGet(other.deleted, point_id))
       IN  UpdateFromRollsBack(marked.st, other, Tail(other_ids), stopped_at - 1, start)

\* update_from that polls the stop flag between the push and set_deleted
RECURSIVE UpdateFromStopsAfterPush(_, _, _, _, _)
UpdateFromStopsAfterPush(st, other, other_ids, stopped_at, start) ==
  IF other_ids = <<>>
  THEN [st |-> st, res |-> "Ok", range |-> <<start.n, Len(st.vectors)>>]
  ELSE LET point_id == Head(other_ids)
           new_id == Len(st.vectors)
           pushed == [st EXCEPT !.vectors = Append(@, other.vectors[point_id + 1])]
           marked == SetDeleted(pushed, new_id, FlagsGet(other.deleted, point_id))
       IN  IF stopped_at = 0
           THEN [st |-> pushed, res |-> "Err", range |-> <<>>]
           ELSE UpdateFromStopsAfterPush(marked.st, other, Tail(other_ids),
                                         stopped_at - 1, start)

\* update_from that marks no copied vector as deleted
RECURSIVE UpdateFromDropsDeleted(_, _, _, _, _)
UpdateFromDropsDeleted(st, other, other_ids, stopped_at, start) ==
  IF other_ids = <<>>
  THEN [st |-> st, res |-> "Ok", range |-> <<start.n, Len(st.vectors)>>]
  ELSE IF stopped_at = 0
  THEN [st |-> st, res |-> "Err", range |-> <<>>]
  ELSE LET point_id == Head(other_ids)
           new_id == Len(st.vectors)
           pushed == [st EXCEPT !.vectors = Append(@, other.vectors[point_id + 1])]
           marked == SetDeleted(pushed, new_id, FALSE)
       IN  UpdateFromDropsDeleted(marked.st, other, Tail(other_ids), stopped_at - 1, start)

\* the loop of update_from; stopped_at is the number of points copied before
\* check_process_stopped sees the flag set (more than there are ids: never);
\* start holds self.vectors.len() at entry
RECURSIVE UpdateFromLoop(_, _, _, _, _)
UpdateFromLoop(st, other, other_ids, stopped_at, start) ==
  IF other_ids = <<>>
  THEN [st |-> st, res |-> "Ok", range |-> <<start.n, Len(st.vectors)>>]
  ELSE IF stopped_at = 0
  THEN [st |-> st, res |-> "Err", range |-> <<>>]
  ELSE LET point_id == Head(other_ids)
           new_id == Len(st.vectors)
           pushed == [st EXCEPT !.vectors = Append(@, other.vectors[point_id + 1])]
           marked == SetDeleted(pushed, new_id, FlagsGet(other.deleted, point_id))
       IN  UpdateFromLoop(marked.st, other, Tail(other_ids), stopped_at - 1, start)

\* update_from(other, other_ids, stopped)
UpdateFrom(st, other, other_ids, stopped_at) ==
  UpdateFromLoop(st, other, other_ids, stopped_at,
                 [n |-> Len(st.vectors), st |-> st])

\* insert_vector that clears the deleted flag of the slot it writes
InsertVectorUndeletes(st, key, vector) ==
  LET r == ChunkedInsert(st.vectors, key, vector)
  IN  [st |-> IF r.res = "Ok"
              THEN SetDeleted(VectorStorage(r.vectors, st.deleted, st.deleted_count),
                              key, FALSE).st
              ELSE st,
       res |-> r.res]

\* insert_vector(key, vector): self.vectors.insert(key, vector) and nothing
\* else
InsertVector(st, key, vector) ==
  LET r == ChunkedInsert(st.vectors, key, vector)
  IN  [st |-> VectorStorage(r.vectors, st.deleted, st.deleted_count),
       res |-> r.res]

\* a call on the vector storage: what it was, its key (for update_from the
\* number of ids), what it returned, the storage before it, and for
\* update_from the points the loop went through before it saw the flag and
\* the range returned
VectorCall(op, key, res, before, copied) ==
  [op |-> op, key |-> key, res |-> res, before |-> before, copied |-> copied,
   range |-> <<>>, flushes |-> <<>>]

\* the ids update_from passes before it sees the flag, each with the vector
\* and the deleted flag it has in the other storage
Copied(other, other_ids, stopped_at) ==
  [k \in 1..(IF stopped_at < Len(other_ids) THEN stopped_at ELSE Len(other_ids)) |->
     [id |-> other_ids[k],
      vector |-> other.vectors[other_ids[k] + 1],
      deleted |-> FlagsGet(other.deleted, other_ids[k])]]

\* the vector and flag files an existing storage directory may hold
ExistingStorages ==
  {OpenAppendable(<<>>, <<>>), OpenAppendable(<<"x">>, <<>>),
   OpenAppendable(<<"x">>, <<TRUE>>)}

InitVector ==
  /\ \E st \in ExistingStorages :
       /\ vectors = st.vectors
       /\ deleted = st.deleted
       /\ deleted_count = st.deleted_count
       /\ vector_last = VectorCall("open", 0, "Ok", st, <<>>)
  /\ quantized_vectors = <<>>

SetStorage(st) ==
  /\ vectors' = st.vectors
  /\ deleted' = st.deleted
  /\ deleted_count' = st.deleted_count

\* insert_vector(key, vector)
DoInsertVector ==
  /\ UNCHANGED nonVectorVars
  /\ \E key \in 0..MaxVectors, vector \in VectorValues :
       LET r == InsertVector(CurrentStorage, key, vector)
       IN  /\ Len(r.st.vectors) <= MaxVectors
           /\ SetStorage(r.st)
           /\ UNCHANGED quantized_vectors
           /\ vector_last' = VectorCall("insert_vector", key, r.res, CurrentStorage, <<>>)

\* delete_vector(key)
DoDeleteVector ==
  /\ UNCHANGED nonVectorVars
  /\ \E key \in 0..MaxVectors :
       LET r == SetDeleted(CurrentStorage, key, TRUE)
       IN  /\ SetStorage(r.st)
           /\ UNCHANGED quantized_vectors
           /\ vector_last' = VectorCall("delete_vector", key,
                                        IF r.previous THEN "Ok(true)" ELSE "Ok(false)",
                                        CurrentStorage, <<>>)

\* update_from(other, other_ids, stopped), the flag set by another thread at
\* any moment of the call or never
DoUpdateFrom ==
  /\ UNCHANGED nonVectorVars
  /\ \E other \in OtherStorages, other_ids \in OtherIds :
       \E stopped_at \in 0..(Len(other_ids) + 1) :
         LET r == UpdateFrom(CurrentStorage, other, other_ids, stopped_at)
         IN  /\ Len(r.st.vectors) <= MaxVectors
             /\ SetStorage(r.st)
             /\ UNCHANGED quantized_vectors
             /\ vector_last' =
                  [VectorCall("update_from", Len(other_ids), r.res, CurrentStorage,
                              Copied(other, other_ids, stopped_at))
                     EXCEPT !.range = r.range]

\* flusher(): todo!() panics before any closure is built; flushes is the
\* order in which the closure returned would flush
Flusher == [res |-> "Panic", flushes |-> <<>>]

\* flusher()
DoFlusher ==
  /\ UNCHANGED nonVectorVars
  /\ UNCHANGED <<vectors, deleted, deleted_count, quantized_vectors>>
  /\ vector_last' = [VectorCall("flusher", 0, Flusher.res, CurrentStorage, <<>>)
                       EXCEPT !.flushes = Flusher.flushes]

\* the encoded form of a vector in the quantized storage
Encode(vector) == <<"encoded", vector>>

\* QuantizedVectorsStorage::create(vectors, config, distance, dim, count,
\* path, on_disk_vector_storage): the encoded copy of the vectors given
Create(vector_data_iterator, count) ==
  [vectors |-> [k \in 1..Len(vector_data_iterator) |-> Encode(vector_data_iterator[k])],
   count |-> count]

\* (from..to).map(|i| self.vectors.get(i))
RECURSIVE MapGet(_, _, _)
MapGet(v, from, to) ==
  IF from >= to THEN <<>> ELSE <<v[from + 1]>> \o MapGet(v, from + 1, to)

\* the vectors of the offsets that are not deleted, in offset order
RECURSIVE LiveVectors(_, _)
LiveVectors(st, from) ==
  IF from >= Len(st.vectors) THEN <<>>
  ELSE (IF FlagsGet(st.deleted, from) THEN <<>> ELSE <<st.vectors[from + 1]>>)
         \o LiveVectors(st, from + 1)

\* quantize that hands the live vectors alone to create
QuantizeLiveOnly(st, create_ok) ==
  IF create_ok
  THEN [quantized_vectors |->
          <<Create(LiveVectors(st, 0), Len(LiveVectors(st, 0)))>>,
        res |-> "Ok"]
  ELSE [quantized_vectors |-> quantized_vectors, res |-> "Err"]

\* quantize(path, quantization_config); create_ok: create returns Ok
Quantize(st, create_ok) ==
  IF create_ok
  THEN [quantized_vectors |->
          <<Create(MapGet(st.vectors, 0, Len(st.vectors)), Len(st.vectors))>>,
        res |-> "Ok"]
  ELSE [quantized_vectors |-> quantized_vectors, res |-> "Err"]

\* quantize(path, quantization_config)
DoQuantize ==
  /\ UNCHANGED nonVectorVars
  /\ UNCHANGED <<vectors, deleted, deleted_count>>
  /\ \E create_ok \in BOOLEAN :
       LET r == Quantize(CurrentStorage, create_ok)
       IN  /\ quantized_vectors' = r.quantized_vectors
           /\ vector_last' = VectorCall("quantize", 0, r.res, CurrentStorage, <<>>)

(***************************************************************************)
(* Calls of the constructors of CardinalityEstimation                      *)
(***************************************************************************)
\* the clauses pushed as primary clauses
Clauses == {NewIsEmpty(TRUE), NewIsNull(TRUE), NewIsNull(FALSE)}

DoExact ==
  /\ \E count \in 0..MaxTotal :
       call' = [fn |-> "exact", arg |-> count, ret |-> Exact(count)]
  /\ UNCHANGED nonCallVars

DoUnknown ==
  /\ \E total \in 0..MaxTotal :
       call' = [fn |-> "unknown", arg |-> total, ret |-> Unknown(total)]
  /\ UNCHANGED nonCallVars

\* with_primary_clause consumes the estimation an earlier call returned
DoWithPrimaryClause ==
  /\ call.fn \in {"exact", "unknown", "with_primary_clause"}
  /\ Len(call.ret.primary_clauses) < MaxClauses
  /\ \E clause \in Clauses :
       call' = [fn |-> "with_primary_clause", arg |-> call.ret,
                clause |-> clause, ret |-> WithPrimaryClause(call.ret, clause)]
  /\ UNCHANGED nonCallVars

(***************************************************************************)
(* CardinalityEstimation::is_primary                                       *)
(***************************************************************************)
\* PrimaryCondition::Condition(Box<FieldCondition>)
PrimaryConditionCondition(field_condition) ==
  [kind |-> "Condition", field_condition |-> field_condition]

\* PrimaryCondition::Ids(ResolvedHasId { point_ids, resolved_point_offsets })
PrimaryConditionIds(point_ids, resolved_point_offsets) ==
  [kind |-> "Ids", point_ids |-> point_ids,
   resolved_point_offsets |-> resolved_point_offsets]

\* PrimaryCondition::HasVector(VectorNameBuf)
PrimaryConditionHasVector(has_vector) ==
  [kind |-> "HasVector", has_vector |-> has_vector]

\* Condition::Field(field_condition)
ConditionField(field_condition) ==
  [kind |-> "Field", field_condition |-> field_condition]

\* Condition::HasId(has_id)
ConditionHasId(has_id) == [kind |-> "HasId", has_id |-> has_id]

\* Condition::HasVector(vector_condition)
ConditionHasVector(has_vector) == [kind |-> "HasVector", has_vector |-> has_vector]

\* a Condition of one of the other variants, here the is-empty condition
\* on a payload key
ConditionIsEmpty(key) == [kind |-> "IsEmpty", key |-> key]

\* the closure given to any(): one arm for each variant of the primary
\* condition, false when the condition is of another variant
PrimaryMatches(primary_condition, condition) ==
  IF primary_condition.kind = "Condition"
  THEN IF condition.kind = "Field"
       THEN primary_condition.field_condition = condition.field_condition
       ELSE FALSE
  ELSE IF primary_condition.kind = "Ids"
  THEN IF condition.kind = "HasId"
       THEN primary_condition.point_ids = condition.has_id
       ELSE FALSE
  ELSE IF condition.kind = "HasVector"
       THEN primary_condition.has_vector = condition.has_vector
       ELSE FALSE

\* is_primary with all() in place of any()
IsPrimaryAll(estimation, condition) ==
  \A k \in 1..Len(estimation.primary_clauses) :
    PrimaryMatches(estimation.primary_clauses[k], condition)

\* CardinalityEstimation::is_primary(condition)
IsPrimary(estimation, condition) ==
  \E k \in 1..Len(estimation.primary_clauses) :
    PrimaryMatches(estimation.primary_clauses[k], condition)

\* the sets of point ids of a has-id condition
PointIdSets == SUBSET {1, 2}

\* the vector names, the default one being empty
VectorNames == {"", "image"}

\* the primary clauses an estimation is given
PrimaryConditions ==
  {PrimaryConditionCondition(c) : c \in Clauses}
    \cup {PrimaryConditionIds(ids, offsets) :
            ids \in PointIdSets, offsets \in {<<>>, <<0>>}}
    \cup {PrimaryConditionHasVector(name) : name \in VectorNames}

\* the conditions asked about
ConditionsAsked ==
  {ConditionField(c) : c \in Clauses}
    \cup {ConditionHasId(ids) : ids \in PointIdSets}
    \cup {ConditionHasVector(name) : name \in VectorNames}
    \cup {ConditionIsEmpty("f")}

\* the sequences of at most n primary clauses
RECURSIVE PrimaryClauseLists(_)
PrimaryClauseLists(n) ==
  IF n = 0 THEN {<<>>}
  ELSE PrimaryClauseLists(n - 1)
         \cup {Append(l, c) : l \in PrimaryClauseLists(n - 1), c \in PrimaryConditions}

\* with_primary_clause for each clause of a list in turn
RECURSIVE WithPrimaryClauses(_, _)
WithPrimaryClauses(estimation, clauses) ==
  IF clauses = <<>> THEN estimation
  ELSE WithPrimaryClauses(WithPrimaryClause(estimation, Head(clauses)), Tail(clauses))

\* is_primary on an estimation built by exact and with_primary_clause
DoIsPrimary ==
  /\ call = NoCall
  /\ \E clauses \in PrimaryClauseLists(MaxClauses), condition \in ConditionsAsked :
       LET estimation == WithPrimaryClauses(Exact(0), clauses)
       IN  call' = [fn |-> "is_primary", estimation |-> estimation,
                    condition |-> condition,
                    ret |-> IsPrimary(estimation, condition)]
  /\ UNCHANGED nonCallVars

(***************************************************************************)
(* quantization: validate_vector_parameters (encoded_vectors.rs)           *)
(***************************************************************************)
\* enum DistanceType
DistanceType == {"Dot", "L1", "L2"}

\* struct VectorParameters
VectorParameters(dim, count, distance_type, invert) ==
  [dim |-> dim, count |-> count, distance_type |-> distance_type,
   invert |-> invert]

\* Err(EncodingError::ArgumentsError(format!(..))): the message as the
\* pieces format! joins
ArgumentsError(what, found, against, expected) ==
  [res |-> "ArgumentsError", message |-> <<what, found, against, expected>>]

\* the check of the number of vectors that follows the loop
CountCheck(count, vector_parameters) ==
  IF count # vector_parameters.count
  THEN ArgumentsError("Vector count", count,
                      "does not match vector parameters count",
                      vector_parameters.count)
  ELSE [res |-> "Ok"]

\* the loop over data from its count-th vector on, count vectors passed
RECURSIVE ValidateLoop(_, _, _)
ValidateLoop(data, vector_parameters, count) ==
  IF count = Len(data) THEN CountCheck(count, vector_parameters)
  ELSE IF Len(data[count + 1]) # vector_parameters.dim
  THEN ArgumentsError("Vector length", Len(data[count + 1]),
                      "does not match vector parameters dim",
                      vector_parameters.dim)
  ELSE ValidateLoop(data, vector_parameters, count + 1)

\* validation that compares the number of vectors before their lengths
ValidateCountFirst(data, vector_parameters) ==
  IF Len(data) # vector_parameters.count
  THEN CountCheck(Len(data), vector_parameters)
  ELSE ValidateLoop(data, vector_parameters, 0)

\* validate_vector_parameters(data, vector_parameters)
ValidateVectorParameters(data, vector_parameters) ==
  ValidateLoop(data, vector_parameters, 0)

\* the slices handed over as vectors: only their length is looked at
Slices == SeqsUpTo({0}, MaxDim)

DoValidateVectorParameters ==
  /\ call = NoCall
  /\ \E data \in SeqsUpTo(Slices, MaxData), dim \in 0..MaxDim,
        count \in 0..MaxData, distance_type \in DistanceType,
        invert \in BOOLEAN :
       LET vector_parameters ==
             VectorParameters(dim, count, distance_type, invert)
       IN  call' = [fn |-> "validate_vector_parameters", data |-> data,
                    vector_parameters |-> vector_parameters,
                    ret |-> ValidateVectorParameters(data, vector_parameters)]
  /\ UNCHANGED nonCallVars

(***************************************************************************)
(* full-text index: StopwordsFilter (stop_words/mod.rs)                    *)
(***************************************************************************)
\* the words and tokens of the model
Words ==
  {"the", "The", "and", "AND", "of", "mustn't", "hello", "Hello", "HELLO",
   "world", "World", "WORLD", "programming", "y", "Y"}

\* str::to_lowercase on the words of the model
ToLowercase(word) ==
  CASE word = "The" -> "the"
    [] word = "AND" -> "and"
    [] word \in {"Hello", "HELLO"} -> "hello"
    [] word \in {"World", "WORLD"} -> "world"
    [] word = "Y" -> "y"
    [] OTHER -> word

\* enum Language, two of its members
Languages == {"English", "Spanish"}

\* english::ENGLISH_STOPWORDS, the words of it the tests name
ENGLISH_STOPWORDS == {"the", "and", "of", "mustn't"}

\* spanish::SPANISH_STOPWORDS, the word of it the tests name
SPANISH_STOPWORDS == {"y"}

\* Some(StopwordsInterface::Language(lang))
StopwordsLanguage(lang) == <<[kind |-> "Language", lang |-> lang]>>

\* Some(StopwordsInterface::Set(StopwordsSet { languages, custom })), both
\* fields an Option of a set
StopwordsSet(languages, custom) ==
  <<[kind |-> "Set", languages |-> languages, custom |-> custom]>>

\* struct StopwordsFilter
StopwordsFilter(stopwords) == [stopwords |-> stopwords]

\* add_stopword that keeps the word as it is, whatever lowercase says
AddStopwordVerbatim(this, word, lowercase) ==
  StopwordsFilter(this.stopwords \cup {word})

\* StopwordsFilter::add_stopword(word, lowercase)
AddStopword(this, word, lowercase) ==
  IF lowercase THEN StopwordsFilter(this.stopwords \cup {ToLowercase(word)})
  ELSE StopwordsFilter(this.stopwords \cup {word})

\* for word in words { this.add_stopword(word, lowercase) }: the set a
\* loop of inserts leaves does not depend on the order of the words
RECURSIVE AddStopwords(_, _, _)
AddStopwords(this, words, lowercase) ==
  IF words = {} THEN this
  ELSE LET word == CHOOSE w \in words : TRUE
       IN  AddStopwords(AddStopword(this, word, lowercase), words \ {word},
                        lowercase)

\* StopwordsFilter::add_language_stopwords(language, lowercase)
AddLanguageStopwords(this, language, lowercase) ==
  LET stopwords_array ==
        CASE language = "English" -> ENGLISH_STOPWORDS
          [] language = "Spanish" -> SPANISH_STOPWORDS
  IN  AddStopwords(this, stopwords_array, lowercase)

\* for lang in languages { this.add_language_stopwords(lang, lowercase) }
RECURSIVE AddLanguages(_, _, _)
AddLanguages(this, languages, lowercase) ==
  IF languages = {} THEN this
  ELSE LET lang == CHOOSE l \in languages : TRUE
       IN  AddLanguages(AddLanguageStopwords(this, lang, lowercase),
                        languages \ {lang}, lowercase)

\* StopwordsFilter::new(option, lowercase)
StopwordsFilterNew(option, lowercase) ==
  LET this == StopwordsFilter({})
  IN  IF option = <<>> THEN this
      ELSE IF option[1].kind = "Language"
      THEN AddLanguageStopwords(this, option[1].lang, lowercase)
      ELSE LET set == option[1]
               with_languages ==
                 IF set.languages # <<>>
                 THEN AddLanguages(this, set.languages[1], lowercase)
                 ELSE this
           IN  IF set.custom # <<>>
               THEN AddStopwords(with_languages, set.custom[1], lowercase)
               ELSE with_languages

\* StopwordsFilter::is_stopword(token)
IsStopword(this, token) == token \in this.stopwords

\* the custom words a caller hands over
CustomWords == {"hello", "world", "Hello", "World"}

CustomSets == {c \in SUBSET CustomWords : Cardinality(c) <= MaxCustom}

\* the values of Option<StopwordsInterface>
StopwordsOptions ==
  {<<>>}
  \cup {StopwordsLanguage(lang) : lang \in Languages}
  \cup {StopwordsSet(languages, custom) :
          languages \in {<<>>} \cup {<<l>> : l \in SUBSET Languages},
          custom \in {<<>>} \cup {<<c>> : c \in CustomSets}}

DoStopwordsFilterNew ==
  /\ call = NoCall
  /\ \E option \in StopwordsOptions, lowercase \in BOOLEAN :
       call' = [fn |-> "StopwordsFilter::new", option |-> option,
                lowercase |-> lowercase,
                ret |-> StopwordsFilterNew(option, lowercase)]
  /\ UNCHANGED nonCallVars

\* is_stopword on the filter new returned; option and lowercase are kept to
\* tell what the filter was built from
DoIsStopword ==
  /\ call.fn \in {"StopwordsFilter::new", "is_stopword"}
  /\ \E token \in Words :
       LET this == IF call.fn = "is_stopword" THEN call.this ELSE call.ret
       IN  call' = [fn |-> "is_stopword", option |-> call.option,
                    lowercase |-> call.lowercase, this |-> this,
                    token |-> token, ret |-> IsStopword(this, token)]
  /\ UNCHANGED nonCallVars

(***************************************************************************)
(* Payload index registry and query planner (StructPayloadIndex), as the   *)
(* nested filtering test drives them (nested_filtering_test.rs)            *)
(*                                                                         *)
(* A payload is the array arr1 of a point: a sequence of elements with the *)
(* keys a, b, c, d.  The field f of the test, which no condition reads, is *)
(* left out.  A path is a sequence of keys: <<"arr1", "a">> is arr1[].a.   *)
(***************************************************************************)
NUM_POINTS == 200

\* one element of arr1
Element(a, b, c, d) == [a |-> a, b |-> b, c |-> c, d |-> d]

\* nested_payloads()
NestedPayloads ==
  [k \in 1..NUM_POINTS |->
     LET i == k - 1
     IN  <<Element(1, (i % 10) + 1, (i % 2) + 1, i % 3),
           Element(2, (i % 10) + 2, (i % 2) + 1, i % 3),
           Element(3, (i % 10) + 3, (i % 2) + 2, i % 3),
           Element(4, (i % 10) + 4, (i % 2) + 2, i % 3),
           Element(5, (i % 10) + 5, (i % 2) + 2, i % 3)>>]

\* Condition::Field(FieldCondition::new_match(key, value))
NewMatch(key, value) == [kind |-> "Field", key |-> key, value |-> value]

\* Condition::new_nested(key, Filter { must, should: None, must_not: None })
NewNested(key, must) == [kind |-> "Nested", key |-> <<key>>, must |-> must]

\* Filter { must, should, must_not }, None being the empty sequence
NewFilter(must, should, must_not) ==
  [must |-> must, should |-> should, must_not |-> must_not]

\* Filter::new_must(condition)
NewMust(condition) == NewFilter(<<condition>>, <<>>, <<>>)

\* the values a payload holds at the path arr1[].key
ValuesAt(payload, path) == {payload[j][path[2]] : j \in 1..Len(payload)}

\* every offset of the segment, ascending
AllOffsets(payloads) == [k \in 1..Len(payloads) |-> k - 1]

\* the posting list set_indexed builds for a value of an indexed path: the
\* offsets whose payload holds the value there, ascending
Posting(payloads, path, value) ==
  LET Holds(id) == value \in ValuesAt(payloads[id + 1], path)
  IN  SelectSeq(AllOffsets(payloads), Holds)

\* the registry's filter(condition) for a match on an indexed path
FieldIndexFilter(payloads, condition) ==
  Posting(payloads, condition.key, condition.value)

\* the registry's estimate_cardinality(condition) for a match on an indexed
\* path
EstimateField(payloads, condition) ==
  WithPrimaryClause(Exact(Len(FieldIndexFilter(payloads, condition))),
                    condition)

\* the position of the estimation with the smallest exp, the first of them
\* if several share it
SmallestExp(estimations) ==
  CHOOSE p \in 1..Len(estimations) :
    \A q \in 1..Len(estimations) :
      \/ estimations[p].exp < estimations[q].exp
      \/ estimations[p].exp = estimations[q].exp /\ p <= q

\* the conditions of a nested condition, their keys joined to its key
Joined(nested) ==
  [k \in 1..Len(nested.must) |->
     NewMatch(nested.key \o nested.must[k].key, nested.must[k].value)]

\* step 1: the estimation of a condition; a nested condition is the
\* intersection of its conditions and takes the smallest of their
\* estimations, primary clause included
EstimateCondition(payloads, condition) ==
  IF condition.kind = "Field" THEN EstimateField(payloads, condition)
  ELSE LET inner == [k \in 1..Len(condition.must) |->
                       EstimateField(payloads, Joined(condition)[k])]
       IN  inner[SmallestExp(inner)]

\* step 2: the driving iterator of a condition is the filter of its
\* primary clause
Driver(payloads, condition) ==
  FieldIndexFilter(payloads,
                   EstimateCondition(payloads, condition).primary_clauses[1])

\* step 3: the per-offset predicate of a condition: a membership test of
\* the field index for a match, and for a nested condition one element of
\* the array that meets all its conditions
CheckCondition(payloads, condition, id) ==
  IF condition.kind = "Field"
  THEN id \in Elems(FieldIndexFilter(payloads, condition))
  ELSE \E j \in 1..Len(payloads[id + 1]) :
         \A k \in 1..Len(condition.must) :
           payloads[id + 1][j][condition.must[k].key[1]]
             = condition.must[k].value

\* the should group and the must_not group at an offset
CheckShouldMustNot(payloads, filter, id) ==
  /\ \/ filter.should = <<>>
     \/ \E k \in 1..Len(filter.should) :
          CheckCondition(payloads, filter.should[k], id)
  /\ \A k \in 1..Len(filter.must_not) :
       ~CheckCondition(payloads, filter.must_not[k], id)

\* filter_context(filter).check(id)
FilterContextCheck(payloads, filter, id) ==
  /\ \A k \in 1..Len(filter.must) :
       CheckCondition(payloads, filter.must[k], id)
  /\ CheckShouldMustNot(payloads, filter, id)

\* a residual check that trusts the driving iterator of a nested primary
\* clause
ResidualTrustsDriver(payloads, filter, primary, id) ==
  /\ \A k \in 1..Len(filter.must) :
       k # primary => CheckCondition(payloads, filter.must[k], id)
  /\ CheckShouldMustNot(payloads, filter, id)

\* step 4: the residual check at an offset the primary iterator streams:
\* every other must clause, the primary one too if its iterator is that of
\* one of its nested conditions only, then the should and must_not groups
Residual(payloads, filter, primary, id) ==
  /\ \A k \in 1..Len(filter.must) :
       (k # primary \/ filter.must[k].kind = "Nested")
         => CheckCondition(payloads, filter.must[k], id)
  /\ CheckShouldMustNot(payloads, filter, id)

\* the merge of two ascending streams, an offset of both kept once
RECURSIVE Merge(_, _)
Merge(s, t) ==
  IF s = <<>> THEN t
  ELSE IF t = <<>> THEN s
  ELSE IF Head(s) < Head(t) THEN <<Head(s)>> \o Merge(Tail(s), t)
  ELSE IF Head(t) < Head(s) THEN <<Head(t)>> \o Merge(s, Tail(t))
  ELSE <<Head(s)>> \o Merge(Tail(s), Tail(t))

\* step 5: the union stream of a should group from its k-th condition on
RECURSIVE ShouldStream(_, _, _)
ShouldStream(payloads, should, k) ==
  IF k > Len(should) THEN <<>>
  ELSE Merge(Driver(payloads, should[k]),
             ShouldStream(payloads, should, k + 1))

\* query_points(filter)
QueryPoints(payloads, filter) ==
  IF filter.must # <<>>
  THEN LET estimations == [k \in 1..Len(filter.must) |->
                             EstimateCondition(payloads, filter.must[k])]
           primary == SmallestExp(estimations)
           Keep(id) == Residual(payloads, filter, primary, id)
       IN  SelectSeq(Driver(payloads, filter.must[primary]), Keep)
  ELSE LET Keep(id) == CheckShouldMustNot(payloads, filter, id)
       IN  IF filter.should # <<>>
           THEN SelectSeq(ShouldStream(payloads, filter.should, 1), Keep)
           ELSE SelectSeq(AllOffsets(payloads), Keep)

\* (0..NUM_POINTS).filter(|point_id| filter_context.check(point_id))
CheckRes(payloads, filter) ==
  LET Keep(id) == FilterContextCheck(payloads, filter, id)
  IN  SelectSeq(AllOffsets(payloads), Keep)

\* the nested filter of the test: must [a = 1, c = 1, d = 0] on arr1
NestedFilter1 ==
  NewMust(NewNested("arr1", <<NewMatch(<<"a">>, 1), NewMatch(<<"c">>, 1),
                               NewMatch(<<"d">>, 0)>>))

\* the arrays of the small segments: none, one element, and two elements
\* that meet a = 1 and c = 1 only between them
SmallArrays ==
  {<<>>, <<Element(1, 1, 1, 0)>>, <<Element(1, 1, 2, 0)>>,
   <<Element(2, 1, 1, 0)>>,
   <<Element(1, 1, 2, 0), Element(2, 1, 1, 0)>>}

\* the segments of up to MaxPoints points
SmallSegments == SeqsUpTo(SmallArrays, MaxPoints)

\* the conditions of the small filters
SmallConditions ==
  {NewMatch(<<"arr1", "a">>, 1), NewMatch(<<"arr1", "c">>, 1),
   NewNested("arr1", <<NewMatch(<<"a">>, 1), NewMatch(<<"c">>, 1)>>)}

\* groups of no and of one condition
SmallGroups == {<<>>} \cup {<<x>> : x \in SmallConditions}

\* must groups of up to two conditions, in either order; should groups of
\* up to two conditions that differ, the match on a first
SmallFilters ==
  {NewFilter(must, should, must_not) :
     must \in SmallGroups
               \cup {<<x, y>> : x \in SmallConditions, y \in SmallConditions},
     should \in SmallGroups
                 \cup {<<NewMatch(<<"arr1", "a">>, 1), y>> :
                         y \in SmallConditions \ {NewMatch(<<"arr1", "a">>, 1)}},
     must_not \in SmallGroups}

\* query_points and the filter-context scan on the same index and filter
QueryCall(payloads, filter) ==
  [fn |-> "query_points", payloads |-> payloads, filter |-> filter,
   ret |-> QueryPoints(payloads, filter),
   check_res |-> CheckRes(payloads, filter)]

DoQueryPoints ==
  /\ call = NoCall
  /\ \E payloads \in SmallSegments, filter \in SmallFilters :
       call' = QueryCall(payloads, filter)
  /\ UNCHANGED nonCallVars

\* test_filtering_context_consistency
DoNestedFilteringTest ==
  /\ call = NoCall
  /\ call' = QueryCall(NestedPayloads, NestedFilter1)
  /\ UNCHANGED nonCallVars

(***************************************************************************)
(* The Gridstore of a map index between the thread that owns the index     *)
(* and the flusher closures run elsewhere (mutable_map_index.rs).          *)
(* A step is one of: a call on the index up to the point where it takes    *)
(* the lock, the time it holds the lock, and for a closure the upgrade,    *)
(* the read lock, the flush with the release of lock and reference.        *)
(***************************************************************************)
Closures == 1..MaxClosures

\* the holder of the strong reference in Storage::Gridstore(Some(..)); the
\* closures are numbered from 1
TheIndex == 0

\* RwLock::new(..)
Unlocked == [readers |-> {}, writer |-> FALSE]

\* a write lock that is granted while readers hold the lock
CanWriteAmongReaders(lock) == ~lock.writer

\* RwLock::write() is granted: nobody holds the lock
CanWrite(lock) == ~lock.writer /\ lock.readers = {}

\* RwLock::read() is granted: nobody holds the lock for writing
CanRead(lock) == ~lock.writer

\* a closure that moves a clone of the Arc instead of a Weak
CloneArc(strong, c) == strong \cup {c}

\* Arc::downgrade(store), moved into closure c: no strong reference added
Downgrade(strong, c) == strong

\* Weak::upgrade(): Some as long as a strong reference exists
Upgrade(strong) == strong # {}

\* Arc::into_inner(store): Some only for the last strong reference; the
\* reference handed over is given up either way
ArcIntoInner(strong, holder) ==
  [some |-> strong = {holder}, strong |-> strong \ {holder}]

\* wipe(self); clear_ok: Gridstore::clear returns Ok
Wipe(kind, strong, clear_ok) ==
  IF kind = "Some"
  THEN LET inner == ArcIntoInner(strong, TheIndex)
       IN  IF ~inner.some THEN [res |-> "Panic", strong |-> inner.strong]
           ELSE [res |-> IF clear_ok THEN "Ok" ELSE "Err",
                 strong |-> inner.strong]
  ELSE [res |-> "Ok", strong |-> strong]

\* a closure: where its run is, the storage flusher() saw, what the run
\* returned, whether it called Gridstore::flush, and what it found when it
\* began: where the owner was and which closures were running
Closure(state, kind, res, flushed, began) ==
  [state |-> state, kind |-> kind, res |-> res, flushed |-> flushed,
   began |-> began]

NotObtained == Closure("none", "None", "none", FALSE, <<>>)

Owner(pc, kind, res) == [pc |-> pc, storage |-> kind, res |-> res]

\* the closures that hold an upgraded reference
Running(cl) == {c \in Closures : cl[c].state \in {"upgraded", "flushing"}}

\* open_gridstore returned the index, with a store or without
InitFlusher ==
  /\ \E kind \in {"Some", "None"} :
       /\ owner = Owner("idle", kind, "none")
       /\ store_strong = IF kind = "Some" THEN {TheIndex} ELSE {}
  /\ store_lock = Unlocked
  /\ closures = [c \in Closures |-> NotObtained]
  /\ writes = 0

\* flusher()
DoObtainFlusher ==
  /\ owner.pc = "idle"
  /\ \E c \in Closures :
       /\ closures[c].state = "none"
       /\ closures' = [closures EXCEPT ![c] =
                         Closure("ready", owner.storage, "none", FALSE, <<>>)]
       /\ store_strong' = IF owner.storage = "Some"
                          THEN Downgrade(store_strong, c) ELSE store_strong
  /\ UNCHANGED <<store_lock, owner, writes>>
  /\ UNCHANGED nonFlusherVars

\* add_many_to_map or remove_point up to store.write()
DoStoreWrite ==
  /\ owner.pc = "idle" /\ owner.storage = "Some"
  /\ writes < MaxWrites
  /\ CanWrite(store_lock)
  /\ store_lock' = [store_lock EXCEPT !.writer = TRUE]
  /\ owner' = [owner EXCEPT !.pc = "writing"]
  /\ UNCHANGED <<store_strong, closures, writes>>
  /\ UNCHANGED nonFlusherVars

\* put_value or delete_value returns, the write guard is dropped
DoStoreWritten ==
  /\ owner.pc = "writing"
  /\ store_lock' = [store_lock EXCEPT !.writer = FALSE]
  /\ owner' = [owner EXCEPT !.pc = "idle"]
  /\ writes' = writes + 1
  /\ UNCHANGED <<store_strong, closures>>
  /\ UNCHANGED nonFlusherVars

\* wipe(self)
DoWipe ==
  /\ owner.pc = "idle"
  /\ \E clear_ok \in BOOLEAN :
       LET r == Wipe(owner.storage, store_strong, clear_ok)
       IN  /\ owner' = Owner(IF r.res = "Panic" THEN "panicked" ELSE "wiped",
                             "taken", r.res)
           /\ store_strong' = r.strong
  /\ UNCHANGED <<store_lock, closures, writes>>
  /\ UNCHANGED nonFlusherVars

\* the index goes out of scope
DoDropIndex ==
  /\ owner.pc = "idle"
  /\ owner' = Owner("dropped", "taken", "none")
  /\ store_strong' = store_strong \ {TheIndex}
  /\ UNCHANGED <<store_lock, closures, writes>>
  /\ UNCHANGED nonFlusherVars

\* a closure is called: store.upgrade().ok_or_else(..)?, or Ok(()) at once
\* for the closure of an index without a store
DoClosureUpgrade ==
  /\ \E c \in Closures :
       /\ closures[c].state = "ready"
       /\ LET began == <<[owner |-> owner.pc, running |-> Running(closures)]>>
          IN  IF closures[c].kind = "None"
              THEN /\ closures' = [closures EXCEPT ![c] =
                                     Closure("done", "None", "Ok", FALSE, began)]
                   /\ UNCHANGED store_strong
              ELSE IF Upgrade(store_strong)
              THEN /\ closures' = [closures EXCEPT ![c] =
                                     Closure("upgraded", "Some", "none", FALSE,
                                             began)]
                   /\ store_strong' = store_strong \cup {c}
              ELSE /\ closures' = [closures EXCEPT ![c] =
                                     Closure("done", "Some", "AlreadyDropped",
                                             FALSE, began)]
                   /\ UNCHANGED store_strong
  /\ UNCHANGED <<store_lock, owner, writes>>
  /\ UNCHANGED nonFlusherVars

\* .read()
DoClosureRead ==
  /\ \E c \in Closures :
       /\ closures[c].state = "upgraded"
       /\ CanRead(store_lock)
       /\ store_lock' = [store_lock EXCEPT !.readers = @ \cup {c}]
       /\ closures' = [closures EXCEPT ![c].state = "flushing"]
  /\ UNCHANGED <<store_strong, owner, writes>>
  /\ UNCHANGED nonFlusherVars

\* .flush() returns; the read guard and the upgraded reference are dropped
\* at the end of the statement
DoClosureFlushed ==
  /\ \E c \in Closures, flush_ok \in BOOLEAN :
       /\ closures[c].state = "flushing"
       /\ store_lock' = [store_lock EXCEPT !.readers = @ \ {c}]
       /\ store_strong' = store_strong \ {c}
       /\ closures' = [closures EXCEPT
                         ![c].state = "done",
                         ![c].flushed = TRUE,
                         ![c].res = IF flush_ok THEN "Ok" ELSE "FlushFailed"]
  /\ UNCHANGED <<owner, writes>>
  /\ UNCHANGED nonFlusherVars

(***************************************************************************)
(* Specifications                                                          *)
(***************************************************************************)
\* the map index, its store never failing a write
Init ==
  /\ InitMap
  /\ InitNull
  /\ null_open_args.dir_exists /\ null_open_args.create_if_missing
  /\ null_open_args.total_point_count = 0 /\ has_values_slice = <<>>
  /\ InitVector
  /\ vectors = <<>>
  /\ call = NoCall
  /\ InitFlusher
  /\ owner.storage = "Some"

Next == DoLoad \/ DoAdd({TRUE}, FALSE) \/ DoRemove \/ DoFlush \/ DoReopen

Spec == Init /\ [][Next]_vars

\* the map index, keeping the index before each add_many_to_map
NextRoundTrip == DoLoad \/ DoAdd({TRUE}, TRUE) \/ DoRemove \/ DoFlush \/ DoReopen

SpecRoundTrip == Init /\ [][NextRoundTrip]_vars

\* the map index over a store whose put_value may fail
NextPutFails == DoLoad \/ DoAdd(BOOLEAN, FALSE) \/ DoRemove \/ DoFlush \/ DoReopen

SpecPutFails == Init /\ [][NextPutFails]_vars

\* the null index
InitNullOnly ==
  /\ InitNull
  /\ InitMap
  /\ open_args.path_exists /\ open_args.create_if_missing /\ store = NoRecords
  /\ last.res = "Ok"
  /\ InitVector
  /\ vectors = <<>>
  /\ call = NoCall
  /\ InitFlusher
  /\ owner.storage = "Some"

\* load() on the index as it stands
DoNullLoad ==
  /\ UNCHANGED nonNullVars
  /\ null_last' = NullCall("load", 0, <<>>, NullLoad)
  /\ UNCHANGED <<has_values_slice, is_null_slice, total_point_count,
                 null_storage, null_open_args, null_touched, null_field>>

NextNull == DoNullAdd \/ DoNullRemove

SpecNull == InitNullOnly /\ [][NextNull]_vars

\* MmapNullIndex::builder(path): open(path, 0, true), nothing on disk before
InitNullBuilder ==
  /\ InitNullOnly
  /\ ~null_open_args.dir_exists /\ null_open_args.create_if_missing
  /\ null_open_args.total_point_count = 0

SpecNullBuilder == InitNullBuilder /\ [][NextNull]_vars

\* MmapNullIndex::open(path, total_point_count, false): the directory may
\* be missing, and then the index has no storage
InitNullOpenOnly ==
  /\ InitNullOnly
  /\ ~null_open_args.create_if_missing

NextNullLoad == DoNullLoad \/ DoNullAdd \/ DoNullRemove

SpecNullOpenOnly == InitNullOpenOnly /\ [][NextNullLoad]_vars

\* the appendable vector storage
InitVectorOnly ==
  /\ InitVector
  /\ InitMap
  /\ open_args.path_exists /\ open_args.create_if_missing /\ store = NoRecords
  /\ last.res = "Ok"
  /\ InitNull
  /\ null_open_args.dir_exists /\ null_open_args.create_if_missing
  /\ null_open_args.total_point_count = 0 /\ has_values_slice = <<>>
  /\ call = NoCall
  /\ InitFlusher
  /\ owner.storage = "Some"

NextVector == DoInsertVector \/ DoDeleteVector \/ DoUpdateFrom \/ DoFlusher

SpecVector == InitVectorOnly /\ [][NextVector]_vars

\* the stateless functions: every stateful component empty and at rest
InitCallOnly ==
  /\ InitMap
  /\ open_args.path_exists /\ open_args.create_if_missing /\ store = NoRecords
  /\ last.res = "Ok"
  /\ InitNull
  /\ null_open_args.dir_exists /\ null_open_args.create_if_missing
  /\ null_open_args.total_point_count = 0 /\ has_values_slice = <<>>
  /\ InitVector
  /\ vectors = <<>>
  /\ call = NoCall
  /\ InitFlusher
  /\ owner.storage = "Some"

\* the constructors of CardinalityEstimation
NextCardinality == DoExact \/ DoUnknown \/ DoWithPrimaryClause

SpecCardinality == InitCallOnly /\ [][NextCardinality]_vars

SpecIsPrimary == InitCallOnly /\ [][DoIsPrimary]_vars

\* validate_vector_parameters, called once on each input
NextValidate == DoValidateVectorParameters

SpecValidate == InitCallOnly /\ [][NextValidate]_vars

\* the stop-word filter of the full-text index
NextStopwords == DoStopwordsFilterNew \/ DoIsStopword

SpecStopwords == InitCallOnly /\ [][NextStopwords]_vars

\* the query planner
NextPlanner == DoQueryPoints \/ DoNestedFilteringTest

SpecPlanner == InitCallOnly /\ [][NextPlanner]_vars

\* the store of a map index, its owner and its flusher closures
InitFlusherOnly ==
  /\ InitMap
  /\ open_args.path_exists /\ open_args.create_if_missing /\ store = NoRecords
  /\ last.res = "Ok"
  /\ InitNull
  /\ null_open_args.dir_exists /\ null_open_args.create_if_missing
  /\ null_open_args.total_point_count = 0 /\ has_values_slice = <<>>
  /\ InitVector
  /\ vectors = <<>>
  /\ call = NoCall
  /\ InitFlusher

NextFlusher ==
  \/ DoObtainFlusher \/ DoStoreWrite \/ DoStoreWritten \/ DoWipe
  \/ DoDropIndex \/ DoClosureUpgrade \/ DoClosureRead \/ DoClosureFlushed

SpecFlusher == InitFlusherOnly /\ [][NextFlusher]_vars

\* the appendable vector storage and its quantized copy
NextQuantize == DoInsertVector \/ DoDeleteVector \/ DoQuantize

SpecQuantize == InitVectorOnly /\ [][NextQuantize]_vars

(***************************************************************************)
(* Claims about the map index                                              *)
(***************************************************************************)
\* the forward list of offset idx, empty when the Vec does not reach idx
ForwardList(p, idx) == IF idx < Len(p) THEN p[idx + 1] ELSE <<>>

RECURSIVE SumLen(_)
SumLen(p) == IF p = <<>> THEN 0 ELSE Len(Head(p)) + SumLen(Tail(p))

NonEmptyLists(p) == Cardinality({k \in 1..Len(p) : p[k] # <<>>})

\* C1: for every offset j and value v, j is in the posting set map[v] if
\* and only if v occurs in point_to_values[j].
C1_PostingForwardAgreement ==
  \A j \in Offsets, v \in Values :
    (j \in Elems(get_iterator(v))) <=> (v \in Elems(ForwardList(point_to_values, j)))

\* C1, the failing input: offset 0 was added twice, its posting under "a"
\* outlives the forward list that held "a".
C1_StalePosting ==
  /\ storage = "Some"
  /\ 0 \in Elems(get_iterator("a"))
  /\ ForwardList(point_to_values, 0) = <<"b">>

\* C2: indexed_points is the number of offsets with a non-empty forward
\* list, and values_count the number of value occurrences over all lists.
C2_CountersMatchLists ==
  /\ indexed_points = NonEmptyLists(point_to_values)
  /\ values_count = SumLen(point_to_values)

\* C2, the failing input: with a store that never failed, one non-empty
\* list and two indexed points.
C2_DoubleCounted ==
  /\ storage = "Some"
  /\ last.op = "add" /\ last.res = "Ok"
  /\ NonEmptyLists(point_to_values) = 1
  /\ indexed_points = 2

\* C3: a successful add_many_to_map(offset, values) raises values_count by
\* values.len(), and indexed_points by 1 if and only if the forward list of
\* offset was empty before the call (and by 0 otherwise).
C3_AddCountsExactly ==
  [][(last'.op = "add" /\ last'.res = "Ok") =>
       /\ values_count' = values_count + Len(last'.vals)
       /\ indexed_points' = indexed_points +
            (IF ForwardList(point_to_values, last'.idx) = <<>> THEN 1 ELSE 0)]_vars

\* C3, the failing input: a successful add of a non-empty list to an offset
\* that holds one left indexed_points above the number of non-empty lists.
C3_CountedTwice ==
  /\ last.op = "add" /\ last.res = "Ok" /\ last.vals # <<>>
  /\ indexed_points > NonEmptyLists(point_to_values)

\* C4: after remove_point(i) returns Ok, point_to_values[i] is empty and no
\* posting set contains i.
C4_RemoveLeavesNothing ==
  (last.op = "remove" /\ last.res = "Ok") =>
    /\ ForwardList(point_to_values, last.idx) = <<>>
    /\ \A v \in Values : last.idx \notin Elems(get_iterator(v))

\* C5: add_many_to_map(i, V) followed by remove_point(i) returns map (keys
\* and posting sets), point_to_values, indexed_points and values_count to
\* their state before the add.
C5_RoundTripRestores ==
  (last.op = "remove" /\ last.res = "Ok" /\ snap # <<>>) => Current = snap[1]

\* C5, the failing input: the round trip from an index that never held the
\* value leaves its key in the map.
C5_KeyLeftBehind ==
  /\ last.op = "remove" /\ last.res = "Ok" /\ snap # <<>>
  /\ snap[1].point_to_values = <<>>
  /\ get_unique_values_count = 1
  /\ \A v \in Values : get_iterator(v) = <<>>

\* C6: after a flush, an index freshly opened on the same store and loaded
\* has the map, point_to_values, indexed_points and values_count of the
\* index that wrote the store.
C6_LoadRestoresWriter ==
  (storage = "Some" /\ last.op = "flush" /\ ~dirty) =>
    LoadGridstore(EmptyIndex, store) = Current

\* C7: get_iterator(value) yields the offsets of the posting set of value,
\* each once and in strictly ascending order, and nothing for a value that
\* was never added.
C7_IteratorAscending ==
  \A v \in Values :
    LET ids == get_iterator(v)
    IN  /\ \A k \in 1..(Len(ids) - 1) : ids[k] < ids[k + 1]
        /\ Elems(ids) \subseteq Offsets
        /\ v \notin ever_added => ids = <<>>

\* C7 happens: offset 0 was added to a posting set that held offset 1, and
\* another value was never added.
C7_Witness ==
  /\ last.op = "add" /\ last.idx = 0 /\ last.res = "Ok"
  /\ dirty /\ store[1] = <<<<"a">>>> /\ indexed_points = 2
  /\ get_iterator("a") = <<0, 1>>
  /\ "b" \notin ever_added

\* C8: open_gridstore with create_if_missing = false on a path that does
\* not exist succeeds; load then returns Ok(false) and leaves map,
\* point_to_values, indexed_points and values_count empty.
C8_OpenMissingLoadsNothing ==
  (~open_args.create_if_missing /\ ~open_args.path_exists) =>
    /\ storage = "None"
    /\ last.op = "open" => last.res = "Ok" /\ Current = EmptyIndex
    /\ last.op = "load" => last.res = "Ok(false)" /\ Current = EmptyIndex

\* C8 happens: load has returned on an index opened on a missing path.
C8_Witness ==
  /\ ~open_args.create_if_missing /\ ~open_args.path_exists
  /\ last.op = "load" /\ last.res = "Ok(false)"

\* C9: an index with no backend answers every read as an empty index does:
\* the counters and the number of unique values are 0, get_iterator is
\* empty for every value, values_count(offset) is None or 0.
C9_NoBackendReadsEmpty ==
  storage = "None" =>
    /\ get_values_count = 0
    /\ get_indexed_points = 0
    /\ get_unique_values_count = 0
    /\ \A v \in Values : get_iterator(v) = <<>>
    /\ \A idx \in Offsets : ValuesCountAt(idx) \in {<<>>, <<0>>}

(***************************************************************************)
(* Claims about the appendable vector storage                              *)
(***************************************************************************)
\* the offsets of the stored vectors whose deleted flag is set
DeletedOffsets(st) ==
  {i \in 0..(Len(st.vectors) - 1) : FlagsGet(st.deleted, i)}

\* C19: after any sequence of insert_vector, delete_vector and update_from,
\* no call leaves total_vector_count smaller than it found it, and
\* deleted_vector_count is the number of offsets below total_vector_count
\* whose deleted flag is set.
C19_LenGrowsCountMatches ==
  /\ Len(vectors) >= Len(vector_last.before.vectors)
  /\ deleted_count = Cardinality(DeletedOffsets(CurrentStorage))

\* C19 happens: an update_from has copied a deleted and a live vector after
\* a delete_vector.
C19_Witness ==
  /\ vector_last.op = "update_from" /\ vector_last.res = "Ok"
  /\ vector_last.before.deleted_count = 1
  /\ Len(vectors) = Len(vector_last.before.vectors) + 2
  /\ deleted_count = 2

\* C20 as stated: when update_from returns an error because the flag was
\* set, total_vector_count, the deleted flags and deleted_vector_count are
\* what they were before the call.
C20_CancelDiscardsPartialWork ==
  (vector_last.op = "update_from" /\ vector_last.res = "Err") =>
    /\ Len(vectors) = Len(vector_last.before.vectors)
    /\ \A i \in 0..MaxVectors :
         FlagsGet(deleted, i) = FlagsGet(vector_last.before.deleted, i)
    /\ deleted_count = vector_last.before.deleted_count

\* C20 as amended: when update_from returns an error because the flag was
\* set, the points copied before the flag was seen stay: the vectors and
\* flags found at entry are unchanged, each copied point follows them with
\* its vector and its deleted flag, and deleted_vector_count has grown by
\* the number of deleted points among them.
C20_CancelKeepsCopiedPoints ==
  (vector_last.op = "update_from" /\ vector_last.res = "Err") =>
    LET before == vector_last.before
        copied == vector_last.copied
        n == Len(before.vectors)
    IN  /\ Len(copied) < vector_last.key
        /\ Len(vectors) = n + Len(copied)
        /\ SubSeq(vectors, 1, n) = before.vectors
        /\ \A i \in 0..(n - 1) : FlagsGet(deleted, i) = FlagsGet(before.deleted, i)
        /\ \A k \in 1..Len(copied) :
             /\ vectors[n + k] = copied[k].vector
             /\ FlagsGet(deleted, n + k - 1) = copied[k].deleted
        /\ deleted_count = before.deleted_count
             + Cardinality({k \in 1..Len(copied) : copied[k].deleted})

\* C20 happens: the flag is seen after one deleted point of two was copied.
C20_Witness ==
  /\ vector_last.op = "update_from" /\ vector_last.res = "Err"
  /\ vector_last.key = 2 /\ Len(vector_last.copied) = 1
  /\ vector_last.copied[1].deleted
  /\ deleted_count = vector_last.before.deleted_count + 1

\* C21: when update_from returns an error because the flag was seen, every
\* source point is copied whole or not at all: each vector appended is that
\* of a point the loop went through and carries that point's deleted flag,
\* no other vector is appended and no flag is set at or above
\* total_vector_count; deleted_vector_count is the number of set flags
\* below total_vector_count.
C21_CancelLeavesWholePoints ==
  (vector_last.op = "update_from" /\ vector_last.res = "Err") =>
    LET n == Len(vector_last.before.vectors)
        copied == vector_last.copied
    IN  /\ Len(vectors) - n = Len(copied)
        /\ \A k \in 1..(Len(vectors) - n) :
             /\ k <= Len(copied)
             /\ vectors[n + k] = copied[k].vector
             /\ FlagsGet(deleted, n + k - 1) = copied[k].deleted
        /\ \A i \in Len(vectors)..(MaxVectors + 1) : ~FlagsGet(deleted, i)
        /\ deleted_count = Cardinality(DeletedOffsets(CurrentStorage))

\* C21 happens: the flag is seen before the second of two points, the first
\* a live one, on a storage that holds a deleted vector.
C21_Witness ==
  /\ vector_last.op = "update_from" /\ vector_last.res = "Err"
  /\ vector_last.key = 2 /\ Len(vector_last.copied) = 1
  /\ ~vector_last.copied[1].deleted
  /\ vector_last.before.deleted_count = 1
  /\ deleted_count = 1

\* C22: update_from that returns Ok has appended one vector per id in
\* iteration order, returns the range from the length before to the length
\* after, the k-th appended offset is deleted if and only if the k-th id is
\* deleted in the other storage, and deleted_vector_count has grown by the
\* number of deleted source ids.
C22_UpdateFromCopiesInOrder ==
  (vector_last.op = "update_from" /\ vector_last.res = "Ok") =>
    LET before == vector_last.before
        n == Len(before.vectors)
        copied == vector_last.copied
    IN  /\ Len(copied) = vector_last.key
        /\ Len(vectors) = n + vector_last.key
        /\ SubSeq(vectors, 1, n) = before.vectors
        /\ vector_last.range = <<n, Len(vectors)>>
        /\ \A k \in 1..Len(copied) :
             /\ vectors[n + k] = copied[k].vector
             /\ FlagsGet(deleted, n + k - 1) <=> copied[k].deleted
        /\ deleted_count = before.deleted_count
             + Cardinality({k \in 1..Len(copied) : copied[k].deleted})

\* C22 happens: two ids copied, the second deleted in the other storage
\* and the first not.
C22_Witness ==
  /\ vector_last.op = "update_from" /\ vector_last.res = "Ok"
  /\ vector_last.key = 2
  /\ ~vector_last.copied[1].deleted /\ vector_last.copied[2].deleted
  /\ vector_last.copied[1].id = 1 /\ vector_last.copied[2].id = 0
  /\ vector_last.range = <<1, 3>>

\* C23: delete_vector(key) returns the deleted flag key had before: false
\* on the first delete of a stored vector, which is then deleted with
\* deleted_vector_count one higher; true on a repeated delete, which
\* changes nothing; false with nothing changed for a key at or above
\* total_vector_count.
C23_DeleteReturnsPrevious ==
  vector_last.op = "delete_vector" =>
    LET before == vector_last.before
        key == vector_last.key
        same_flags == \A i \in 0..(MaxVectors + 1) :
                        FlagsGet(deleted, i) = FlagsGet(before.deleted, i)
    IN  /\ vectors = before.vectors
        /\ IF key >= Len(before.vectors)
           THEN /\ vector_last.res = "Ok(false)"
                /\ same_flags /\ deleted_count = before.deleted_count
           ELSE IF FlagsGet(before.deleted, key)
           THEN /\ vector_last.res = "Ok(true)"
                /\ same_flags /\ deleted_count = before.deleted_count
           ELSE /\ vector_last.res = "Ok(false)"
                /\ FlagsGet(deleted, key)
                /\ \A i \in 0..(MaxVectors + 1) :
                     i # key => FlagsGet(deleted, i) = FlagsGet(before.deleted, i)
                /\ deleted_count = before.deleted_count + 1

\* C23 happens: a repeated delete of a stored vector returns true.
C23_Witness ==
  /\ vector_last.op = "delete_vector" /\ vector_last.res = "Ok(true)"
  /\ vector_last.key = 1 /\ Len(vectors) = 2
  /\ deleted_count = 1

\* C24: flusher() returns a closure that flushes the vector pages first and
\* the deletion bitmap second.
C24_FlusherVectorsThenDeleted ==
  vector_last.op = "flusher" =>
    /\ vector_last.res = "Ok"
    /\ vector_last.flushes = <<"vectors", "deleted">>

\* C24 happens: flusher() is called on a storage that holds a vector.
C24_FlusherCalled ==
  /\ vector_last.op = "flusher"
  /\ Len(vectors) = 1

C10_HasValuesMatchesPayload ==
  (null_last.op = "add_point" /\ null_last.res = "Ok") =>
    (FlagsGet(has_values_slice, null_last.id) <=> null_last.field_has_values)

\* C10 happens: the one value of the payload was an array with a null
\* element, and has_values is set.
C10_Witness ==
  /\ null_last.op = "add_point" /\ null_last.res = "Ok"
  /\ null_last.payload_len = 1 /\ null_last.field_is_null
  /\ FlagsGet(has_values_slice, null_last.id)

\* C11: after add_point(i, payload), is_null[i] is true if and only if some
\* value of the payload is null or is an array with a null element, also
\* when the scan left the payload early.
C11_IsNullMatchesPayload ==
  (null_last.op = "add_point" /\ null_last.res = "Ok") =>
    (FlagsGet(is_null_slice, null_last.id) <=> null_last.field_is_null)

\* C11 happens: a payload of two values that has a value and a null, both
\* flags set.
C11_Witness ==
  /\ null_last.op = "add_point" /\ null_last.res = "Ok"
  /\ null_last.payload_len = 2
  /\ null_last.field_is_null /\ null_last.field_has_values
  /\ FlagsGet(is_null_slice, null_last.id)
  /\ FlagsGet(has_values_slice, null_last.id)

\* the offsets below total_point_count
Tracked == 0..(total_point_count - 1)

\* the offsets the index can hold a flag for
Flagged == 0..(Max(total_point_count, Max(Len(has_values_slice), Len(is_null_slice))) - 1)

\* an iterator that yields each of the offsets of a set once
YieldsExactly(stream, offsets) ==
  /\ Elems(stream) = offsets
  /\ Len(stream) = Cardinality(offsets)

\* C12: the filter yields exactly, for is_empty = true, the offsets below
\* total_point_count that values_is_empty says are empty; for is_empty =
\* false, the offsets that are not empty; for is_null = true, the offsets
\* values_is_null says are null; for is_null = false, the offsets below
\* total_point_count that are not null.
C12_FilterMatchesFlags ==
  null_storage = "Some" =>
    /\ YieldsExactly(Filter(NewIsEmpty(TRUE))[1],
                     {i \in Tracked : values_is_empty(i)})
    /\ YieldsExactly(Filter(NewIsEmpty(FALSE))[1],
                     {i \in Flagged : ~values_is_empty(i)})
    /\ YieldsExactly(Filter(NewIsNull(TRUE))[1],
                     {i \in Flagged : values_is_null(i)})
    /\ YieldsExactly(Filter(NewIsNull(FALSE))[1],
                     {i \in Tracked : ~values_is_null(i)})

\* C12 happens: after a remove_point, every one of the four filters yields
\* an offset.
C12_Witness ==
  /\ null_last.op = "remove_point" /\ null_storage = "Some"
  /\ \A c \in {NewIsEmpty(TRUE), NewIsEmpty(FALSE), NewIsNull(TRUE), NewIsNull(FALSE)} :
       Filter(c)[1] # <<>>

\* C13: total_point_count never decreases; add_point(id) and remove_point(id)
\* on an initialized index leave it at id + 1 or more; and an offset that
\* remove_point took and add_point never did is among the offsets
\* filter(is_empty = true) yields.
C13_HighWaterMark ==
  [][/\ total_point_count' >= total_point_count
     /\ (null_storage = "Some" /\ null_last'.op \in {"add_point", "remove_point"})
          => total_point_count' >= null_last'.id + 1
     /\ \A i \in NullIds :
          (null_storage' = "Some" /\ null_touched'[i] = "removed")
            => i \in Elems(Filter(NewIsEmpty(TRUE))[1])']_vars

\* C13 happens: an index opened over no points, the highest offset removed
\* and never added.
C13_Witness ==
  /\ null_storage = "Some" /\ null_open_args.total_point_count = 0
  /\ null_touched[NullMaxId] = "removed"
  /\ total_point_count = NullMaxId + 1
  /\ NullMaxId \in Elems(Filter(NewIsEmpty(TRUE))[1])

\* total_point_count - popcount(flags), not below zero
EstimatedCount(flags) ==
  IF total_point_count >= CountFlags(flags)
  THEN total_point_count - CountFlags(flags) ELSE 0

\* min, exp and max of an estimation
IsEstimate(estimation, min, exp, max) ==
  /\ estimation.min = min /\ estimation.exp = exp /\ estimation.max = max

\* C14 as stated: for is_empty = true the estimation is the exact count,
\* min = exp = max = popcount(has_values); for is_empty = false it is
\* {min: 0, exp: 2/3 estimated, max: estimated} with
\* estimated = total_point_count - popcount(has_values).
C14_EmptyTrueExact ==
  null_storage = "Some" =>
    /\ IsEstimate(EstimateCardinality(NewIsEmpty(TRUE))[1],
                  CountFlags(has_values_slice), CountFlags(has_values_slice),
                  CountFlags(has_values_slice))
    /\ IsEstimate(EstimateCardinality(NewIsEmpty(FALSE))[1],
                  0, (2 * EstimatedCount(has_values_slice)) \div 3,
                  EstimatedCount(has_values_slice))

\* C14 as amended: for is_empty = false the estimation is the exact count,
\* min = exp = max = popcount(has_values); for is_empty = true it is
\* {min: 0, exp: 2 * estimated / 3, max: estimated} with
\* estimated = total_point_count - popcount(has_values).
C14_EmptyFalseExact ==
  null_storage = "Some" =>
    /\ IsEstimate(EstimateCardinality(NewIsEmpty(FALSE))[1],
                  CountFlags(has_values_slice), CountFlags(has_values_slice),
                  CountFlags(has_values_slice))
    /\ IsEstimate(EstimateCardinality(NewIsEmpty(TRUE))[1],
                  0, (2 * EstimatedCount(has_values_slice)) \div 3,
                  EstimatedCount(has_values_slice))

\* C14 happens: two points tracked, one with a value: the two estimations
\* differ in min and exp.
C14_Witness ==
  /\ null_storage = "Some" /\ null_last.op = "add_point"
  /\ total_point_count = 2 /\ CountFlags(has_values_slice) = 1
  /\ EstimateCardinality(NewIsEmpty(TRUE))[1].min = 0
  /\ EstimateCardinality(NewIsEmpty(FALSE))[1].min = 1

\* C15: estimate_cardinality(is_empty = false) is exact, min = exp = max =
\* the number of offsets whose has_values flag is set, and its primary
\* clauses are the is_empty = false condition alone.
C15_NotEmptyIsExact ==
  null_storage = "Some" =>
    LET with_values == Cardinality({i \in Flagged : FlagsGet(has_values_slice, i)})
    IN  EstimateCardinality(NewIsEmpty(FALSE)) =
          <<[primary_clauses |-> <<FieldCondition(<<FALSE>>, <<>>)>>,
             min |-> with_values, exp |-> with_values, max |-> with_values]>>

\* C15 happens: every second point added has a value.
C15_Witness ==
  /\ null_storage = "Some" /\ null_last.op = "add_point"
  /\ null_touched[0] = "added" /\ null_touched[1] = "added"
  /\ ~FlagsGet(has_values_slice, 0) /\ FlagsGet(has_values_slice, 1)
  /\ EstimateCardinality(NewIsEmpty(FALSE))[1].exp = 1

\* C16: for is_null = true the estimation is min = exp = max =
\* popcount(is_null); for is_null = false it is min = 0, max = estimated,
\* exp = 2 * estimated / 3 in integer division, with
\* estimated = total_point_count - popcount(is_null), never negative.
C16_NullEstimates ==
  null_storage = "Some" =>
    /\ IsEstimate(EstimateCardinality(NewIsNull(TRUE))[1],
                  CountFlags(is_null_slice), CountFlags(is_null_slice),
                  CountFlags(is_null_slice))
    /\ IsEstimate(EstimateCardinality(NewIsNull(FALSE))[1],
                  0, (2 * EstimatedCount(is_null_slice)) \div 3,
                  EstimatedCount(is_null_slice))
    /\ EstimateCardinality(NewIsNull(FALSE))[1].max >= 0
    /\ EstimateCardinality(NewIsNull(FALSE))[1].max
         = total_point_count - CountFlags(is_null_slice)

\* C16 happens: two points tracked, neither null: estimated is 2 and exp is
\* 1, the integer part of 4/3.
C16_Witness ==
  /\ null_storage = "Some" /\ null_last.op = "add_point"
  /\ total_point_count = 2 /\ CountFlags(is_null_slice) = 0
  /\ EstimateCardinality(NewIsNull(FALSE))[1].exp = 1
  /\ CountFlags(has_values_slice) = 1

\* C17: for each of the four conditions the estimation brackets the number
\* of offsets the filter yields, min <= |filter| <= max, and
\* min <= exp <= max.
C17_EstimateBracketsFilter ==
  null_storage = "Some" =>
    \A c \in {NewIsEmpty(TRUE), NewIsEmpty(FALSE), NewIsNull(TRUE), NewIsNull(FALSE)} :
      LET e == EstimateCardinality(c)[1]
          n == Len(Filter(c)[1])
      IN  /\ e.min <= n /\ n <= e.max
          /\ e.min <= e.exp /\ e.exp <= e.max

\* C17 happens: after an add_point and a remove_point, one offset is empty
\* and neither is null, so the estimated branches are not zero.
C17_Witness ==
  /\ null_storage = "Some" /\ null_last.op = "remove_point"
  /\ Len(Filter(NewIsEmpty(TRUE))[1]) = 1
  /\ Len(Filter(NewIsNull(FALSE))[1]) = 2
  /\ EstimateCardinality(NewIsEmpty(TRUE))[1].max = 1

\* C18 as stated: at an offset where has_values and is_null are both false,
\* the indexed field is absent from the point's payload.
C18_BothFalseIsAbsent ==
  null_storage = "Some" =>
    \A i \in NullIds :
      (/\ null_field[i] # "unknown"
       /\ ~FlagsGet(has_values_slice, i) /\ ~FlagsGet(is_null_slice, i))
        => null_field[i] = "absent"

\* C18 as amended: at an offset where has_values and is_null are both
\* false, the indexed field is absent from the point's payload or all its
\* values are empty arrays.
C18_BothFalseIsAbsentOrEmptyArrays ==
  null_storage = "Some" =>
    \A i \in NullIds :
      (/\ null_field[i] # "unknown"
       /\ ~FlagsGet(has_values_slice, i) /\ ~FlagsGet(is_null_slice, i))
        => null_field[i] \in {"absent", "empty_arrays"}

\* C18 happens: one offset has both flags set, the other has neither after
\* an add_point of empty arrays.
C18_Witness ==
  /\ null_storage = "Some"
  /\ FlagsGet(has_values_slice, 0) /\ FlagsGet(is_null_slice, 0)
  /\ ~FlagsGet(has_values_slice, 1) /\ ~FlagsGet(is_null_slice, 1)
  /\ null_field[1] = "empty_arrays"

(***************************************************************************)
(* Claims about the constructors of CardinalityEstimation                  *)
(***************************************************************************)
CardinalityCalls == {"exact", "unknown", "with_primary_clause"}

\* C29: unknown(total) is {min 0, exp total/2 rounded down, max total},
\* exact(count) is {min = exp = max = count}, both without primary clauses,
\* so min <= exp <= max for both; with_primary_clause changes nothing but
\* primary_clauses.
C29_UnknownExactShape ==
  /\ call.fn = "unknown" =>
       /\ call.ret.primary_clauses = <<>>
       /\ call.ret.min = 0
       /\ 2 * call.ret.exp <= call.arg /\ call.arg < 2 * call.ret.exp + 2
       /\ call.ret.max = call.arg
  /\ call.fn = "exact" =>
       /\ call.ret.primary_clauses = <<>>
       /\ call.ret.min = call.arg /\ call.ret.exp = call.arg
       /\ call.ret.max = call.arg
  /\ call.fn \in CardinalityCalls =>
       call.ret.min <= call.ret.exp /\ call.ret.exp <= call.ret.max
  /\ call.fn = "with_primary_clause" =>
       /\ call.ret.min = call.arg.min /\ call.ret.exp = call.arg.exp
       /\ call.ret.max = call.arg.max
       /\ DOMAIN call.ret = DOMAIN call.arg

\* a clause pushed onto unknown(3), whose expectation 1 is 3/2 rounded down
C29_Witness ==
  /\ call.fn = "with_primary_clause"
  /\ call.arg = CardinalityEstimation(<<>>, 0, 1, 3)
  /\ call.ret.primary_clauses = <<NewIsNull(TRUE)>>

(***************************************************************************)
(* Claims about validate_vector_parameters                                 *)
(***************************************************************************)
\* the positions of the vectors whose length is not dim
WrongLength(data, vector_parameters) ==
  {k \in 1..Len(data) : Len(data[k]) # vector_parameters.dim}

\* C28: validate_vector_parameters returns ArgumentsError when some
\* vector's length differs from dim, reported at the first such vector and
\* before any check of the count; otherwise ArgumentsError when the number
\* of vectors differs from count; Ok only when every length equals dim and
\* the count matches.
C28_ValidateReportsFirstMismatch ==
  call.fn = "validate_vector_parameters" =>
    LET data == call.data
        p == call.vector_parameters
        wrong == WrongLength(data, p)
    IN  /\ wrong # {} =>
             \E k \in wrong :
               /\ \A j \in wrong : k <= j
               /\ call.ret = ArgumentsError("Vector length", Len(data[k]),
                                "does not match vector parameters dim", p.dim)
        /\ wrong = {} /\ Len(data) # p.count =>
             call.ret = ArgumentsError("Vector count", Len(data),
                          "does not match vector parameters count", p.count)
        /\ call.ret.res = "Ok" <=> (wrong = {} /\ Len(data) = p.count)

\* three vectors of lengths 2, 1, 0 against dim 2 and count 1: lengths and
\* count are both off, and the error names the length 1 of the second vector
C28_Witness ==
  /\ call.fn = "validate_vector_parameters"
  /\ call.data = <<(<<0, 0>>), (<<0>>), (<<>>)>>
  /\ call.vector_parameters.dim = 2 /\ call.vector_parameters.count = 1
  /\ call.ret.res = "ArgumentsError"
  /\ call.ret.message[2] = 1

(***************************************************************************)
(* Claims about the stop-word filter                                       *)
(***************************************************************************)
\* the table of a language
TableOf(language) ==
  IF language = "English" THEN ENGLISH_STOPWORDS ELSE SPANISH_STOPWORDS

\* the words an option selects: the tables of its languages and its custom
\* set, none for None
Selected(option) ==
  IF option = <<>> THEN {}
  ELSE IF option[1].kind = "Language" THEN TableOf(option[1].lang)
  ELSE (IF option[1].languages = <<>> THEN {}
        ELSE UNION {TableOf(l) : l \in option[1].languages[1]})
       \cup (IF option[1].custom = <<>> THEN {} ELSE option[1].custom[1])

\* C27: StopwordsFilter::new(option, lowercase).is_stopword(t) is true if
\* and only if t equals, case-sensitively, a word of the union of the
\* selected language tables and the custom set, each word lower-cased first
\* when lowercase is true and kept verbatim otherwise; with option None no
\* token is a stopword.
C27_StopwordIffSelected ==
  call.fn = "is_stopword" =>
    /\ call.ret <=>
         \E word \in Selected(call.option) :
           call.token = (IF call.lowercase THEN ToLowercase(word) ELSE word)
    /\ call.option = <<>> => ~call.ret

\* English with the custom words Hello and World, lower-cased: hello is a
\* stopword though only Hello was handed over
C27_Witness ==
  /\ call.fn = "is_stopword"
  /\ call.option = StopwordsSet(<<{"English"}>>, <<{"Hello", "World"}>>)
  /\ call.lowercase
  /\ call.token = "hello"
  /\ call.ret

(***************************************************************************)
(* Claims about the query planner                                          *)
(***************************************************************************)
\* C26: for a filter over indexed fields query_points(filter) yields
\* exactly the offsets of [0, N) at which filter_context(filter).check is
\* true, no more and no fewer, in ascending order as the test compares
\* them; on the 200 payloads of the nested filtering test the result is
\* not empty and holds offset 6.
C26_PlannerMatchesCheck ==
  call.fn = "query_points" =>
    /\ call.ret = call.check_res
    /\ \A id \in 0..(Len(call.payloads) - 1) :
         id \in Elems(call.ret)
           <=> FilterContextCheck(call.payloads, call.filter, id)
    /\ (call.payloads = NestedPayloads /\ call.filter = NestedFilter1) =>
         call.ret # <<>> /\ 6 \in Elems(call.ret)

\* a nested must clause on a segment whose first point meets a = 1 and
\* c = 1 in two different elements and whose second meets them in one: the
\* driving iterator streams both, the result holds the second only
C26_Witness ==
  /\ call.fn = "query_points"
  /\ call.filter = NewMust(NewNested("arr1", <<NewMatch(<<"a">>, 1),
                                               NewMatch(<<"c">>, 1)>>))
  /\ call.payloads = <<(<<Element(1, 1, 2, 0), Element(2, 1, 1, 0)>>),
                       (<<Element(1, 1, 1, 0)>>)>>
  /\ call.ret = <<1>>

(***************************************************************************)
(* Claims about the map index: duplicates, errors, counters                *)
(***************************************************************************)
\* some value occurs more than once in the list
HasDuplicate(values) ==
  \E j \in 1..Len(values), k \in 1..Len(values) : j < k /\ values[j] = values[k]

\* the number of times x occurs in the sequence s
Occurrences(s, x) == Cardinality({k \in 1..Len(s) : s[k] = x})

\* C31: a successful add_many_to_map(i, values) with a value occurring more
\* than once keeps every occurrence in point_to_values[i] and counts each in
\* values_count, while the posting set of every such value holds i exactly
\* once; a remove_point(i) that follows subtracts the same number and leaves
\* both counters as they were before the add.
C31_DuplicatesKeptPostingOnce ==
  [][/\ (last'.op = "add" /\ last'.res = "Ok" /\ HasDuplicate(last'.vals)) =>
         /\ ForwardList(point_to_values', last'.idx) = last'.vals
         /\ values_count' = values_count + Len(last'.vals)
         /\ \A v \in Elems(last'.vals) :
              Occurrences(IF map'[v] = <<>> THEN <<>> ELSE map'[v][1],
                          last'.idx) = 1
     /\ (/\ last.op = "add" /\ last.res = "Ok" /\ HasDuplicate(last.vals)
         /\ last'.op = "remove" /\ last'.idx = last.idx) =>
         /\ last'.res = "Ok"
         /\ values_count' = values_count - Len(last.vals)
         /\ snap # <<>>
         /\ values_count' = snap[1].values_count
         /\ indexed_points' = snap[1].indexed_points]_vars

\* offset 1 was given "a" twice and then removed: the counters are back at
\* zero and the posting of "a" is empty
C31_Witness ==
  /\ last.op = "remove" /\ last.idx = 1 /\ last.res = "Ok"
  /\ snap # <<>> /\ snap[1].values_count = 0
  /\ values_count = 0 /\ indexed_points = 0
  /\ map["a"] = <<(<<>>)>> /\ map["b"] = <<>>
  /\ Len(point_to_values) = 2

\* C32: when add_many_to_map returns an error, map, point_to_values,
\* indexed_points and values_count are what they were before the call.
C32_ErrorLeavesIndexUnchanged ==
  [][(last'.op = "add" /\ last'.res = "Err") =>
       /\ map' = map
       /\ point_to_values' = point_to_values
       /\ indexed_points' = indexed_points
       /\ values_count' = values_count]_vars

\* C32, the failing input: an index without a backend after a failed add of
\* one value: a value counted, the forward list of the offset created
C32_FailedAddCounted ==
  /\ storage = "None"
  /\ last.op = "add" /\ last.res = "Err"
  /\ values_count = Len(last.vals) /\ values_count > 0
  /\ indexed_points = 0
  /\ Len(point_to_values) = last.idx + 1

\* C33: in no sequence of add_many_to_map and remove_point, failed calls
\* included, does a decrement of remove_point underflow: indexed_points is
\* at least 1 when a non-empty forward list is removed, and values_count at
\* least the length of the removed list.
C33_DecrementsNeverUnderflow ==
  [][last'.op = "remove" =>
       LET removed == ForwardList(point_to_values, last'.idx)
       IN  /\ removed # <<>> => indexed_points >= 1
           /\ values_count >= Len(removed)
           /\ last'.res # "Panic"]_vars

\* C33, the failing input: put_value failed, the values stayed in the
\* forward list with indexed_points at 0, and remove_point took them out
C33_IndexedPointsWrapped ==
  /\ storage = "Some"
  /\ last.op = "remove"
  /\ \/ last.res = "Panic"
     \/ last.res = "Ok" /\ indexed_points = -1

(***************************************************************************)
(* Claims about the flusher closures of the map index                      *)
(***************************************************************************)
\* C34: the closure flushes under the read lock of the store and
\* add_many_to_map and remove_point write under its write lock, so in no
\* interleaving does a flush overlap a put_value or delete_value.
C34_FlushNeverOverlapsWrite ==
  /\ owner.pc = "writing" =>
       /\ store_lock.writer
       /\ \A c \in Closures : closures[c].state # "flushing"
  /\ \A c \in Closures :
       closures[c].state = "flushing" =>
         c \in store_lock.readers /\ ~store_lock.writer

\* put_value is running while a closure that has upgraded its reference
\* waits for the read lock
C34_Witness ==
  /\ owner.pc = "writing"
  /\ \E c \in Closures : closures[c].state = "upgraded"

\* C35: wipe() of an index with a store never panics, whatever closures
\* obtained from it are doing.
C35_WipeNeverPanics == owner.res # "Panic"

\* C35, the failing input: wipe ran while a closure held its upgraded
\* reference
C35_WipeWhileClosureRuns ==
  /\ owner.pc = "panicked"
  /\ \E c \in Closures : closures[c].state \in {"upgraded", "flushing"}

\* the index existed when the closure began
BeganWithIndex(c) == closures[c].began[1].owner \in {"idle", "writing"}

\* C36: a closure does not keep the store alive.  Run while the index
\* exists it flushes the store; run after the index was dropped or wiped,
\* with no other closure in the middle of its run, it returns the
\* ServiceError and flushes nothing, and the store is gone as soon as the
\* index is and no closure runs; the closure of an index without a store
\* returns Ok.
C36_ClosureHoldsNoStore ==
  /\ (owner.pc \notin {"idle", "writing"} /\ Running(closures) = {}) =>
       store_strong = {}
  /\ \A c \in Closures :
       closures[c].state = "done" =>
         /\ closures[c].kind = "None" =>
              closures[c].res = "Ok" /\ ~closures[c].flushed
         /\ (closures[c].kind = "Some" /\ BeganWithIndex(c)) =>
              closures[c].flushed /\ closures[c].res \in {"Ok", "FlushFailed"}
         /\ (/\ closures[c].kind = "Some" /\ ~BeganWithIndex(c)
             /\ closures[c].began[1].running = {}) =>
              closures[c].res = "AlreadyDropped" /\ ~closures[c].flushed

\* one closure ran while the index existed and flushed, the other ran
\* after the index was dropped and got the error
C36_Witness ==
  /\ owner.pc = "dropped"
  /\ \E c \in Closures, d \in Closures :
       /\ closures[c].state = "done" /\ closures[c].res = "Ok"
       /\ closures[c].flushed
       /\ closures[d].state = "done" /\ closures[d].res = "AlreadyDropped"
       /\ closures[d].began = <<[owner |-> "dropped", running |-> {}]>>

(***************************************************************************)
(* Claims about the null index created by its builder                      *)
(***************************************************************************)
\* the offsets that carry a set flag in either slice
SetFlags ==
  {i \in 0..(Len(has_values_slice) - 1) : FlagsGet(has_values_slice, i)}
    \cup {i \in 0..(Len(is_null_slice) - 1) : FlagsGet(is_null_slice, i)}

\* two iterators that share no offset and together yield each offset of a
\* set once
Partition(a, b, offsets) ==
  /\ Elems(a) \cap Elems(b) = {}
  /\ YieldsExactly(a \o b, offsets)

\* C37: in an index created empty by the builder, every offset that carries
\* a flag lies below total_point_count, so the streams of filter for
\* is_empty = true and is_empty = false are disjoint and together cover
\* exactly the offsets below total_point_count, and likewise the streams
\* for is_null = true and is_null = false.
C37_BuilderFiltersPartition ==
  /\ \A i \in SetFlags : i < total_point_count
  /\ Partition(Filter(NewIsEmpty(TRUE))[1], Filter(NewIsEmpty(FALSE))[1],
               Tracked)
  /\ Partition(Filter(NewIsNull(TRUE))[1], Filter(NewIsNull(FALSE))[1],
               Tracked)

\* C37 happens: after an add_point and a remove_point, every one of the four
\* streams yields an offset.
C37_Witness ==
  /\ null_last.op = "remove_point"
  /\ \E id \in NullIds : null_touched[id] = "added"
  /\ Filter(NewIsEmpty(TRUE))[1] # <<>>
  /\ Filter(NewIsEmpty(FALSE))[1] # <<>>
  /\ Filter(NewIsNull(TRUE))[1] # <<>>
  /\ Filter(NewIsNull(FALSE))[1] # <<>>

(***************************************************************************)
(* Claims about the null index opened without its directory                *)
(***************************************************************************)
\* the field conditions with is_empty and is_null each absent, true or false
NullFieldConditions ==
  {FieldCondition(e, n) : e \in {<<>>, <<TRUE>>, <<FALSE>>},
                          n \in {<<>>, <<TRUE>>, <<FALSE>>}}

\* what every query answers on an index without storage
AnswersAsEmpty ==
  /\ NullLoad = "Ok(false)"
  /\ \A condition \in NullFieldConditions :
       /\ Filter(condition) = <<>>
       /\ EstimateCardinality(condition) = <<>>
  /\ \A id \in 0..(NullMaxId + 1) :
       /\ values_is_empty(id)
       /\ ~values_is_null(id)
       /\ NullValuesCount(id) = 0

\* C38: an index opened with create_if_missing = false whose directory is
\* missing has no storage: load returns Ok(false), add_point returns an
\* error, remove_point returns Ok, neither changes anything (the total
\* point count is not bumped), filter and estimate_cardinality return None
\* for every condition, and every offset is empty, not null and has no
\* value, before and after each call.
C38_MissingIndexAnswersEmpty ==
  [][(~null_open_args.dir_exists /\ ~null_open_args.create_if_missing) =>
       /\ null_storage = "None" /\ null_storage' = "None"
       /\ null_last'.op = "load" => null_last'.res = "Ok(false)"
       /\ null_last'.op = "add_point" => null_last'.res = "Err"
       /\ null_last'.op = "remove_point" => null_last'.res = "Ok"
       /\ UNCHANGED <<has_values_slice, is_null_slice, total_point_count>>
       /\ total_point_count = null_open_args.total_point_count
       /\ AnswersAsEmpty /\ AnswersAsEmpty']_vars

\* C38 happens: on an index without storage, opened for a segment of
\* several points, a remove_point of the last offset has returned Ok.
C38_Witness ==
  /\ ~null_open_args.dir_exists /\ ~null_open_args.create_if_missing
  /\ null_open_args.total_point_count > 0
  /\ null_last.op = "remove_point" /\ null_last.res = "Ok"
  /\ null_last.id >= total_point_count - 1
  /\ null_storage = "None"

(***************************************************************************)
(* Claims about insert_vector and the deleted flags                        *)
(***************************************************************************)
\* C39: insert_vector changes only the stored vectors: the deleted flags
\* and deleted_vector_count are what they were, so a deleted slot that is
\* overwritten stays deleted, and a slot that is appended is not deleted.
C39_InsertKeepsDeletedFlags ==
  [][vector_last'.op = "insert_vector" =>
       LET key == vector_last'.key
       IN  /\ deleted' = deleted
           /\ deleted_count' = deleted_count
           /\ \A k \in 0..MaxVectors :
                k # key /\ k < Len(vectors) => vectors'[k + 1] = vectors[k + 1]
           /\ (vector_last'.res = "Ok" /\ key < Len(vectors)
                 /\ FlagsGet(deleted, key)) => FlagsGet(deleted', key)
           /\ (vector_last'.res = "Ok" /\ key = Len(vectors)) =>
                /\ Len(vectors') = key + 1
                /\ ~FlagsGet(deleted', key)]_vars

\* C39 happens: a storage of several vectors has a deleted slot overwritten
\* with another vector.
C39_Witness ==
  /\ vector_last.op = "insert_vector" /\ vector_last.res = "Ok"
  /\ Len(vectors) >= 2
  /\ vector_last.key < Len(vector_last.before.vectors)
  /\ FlagsGet(vector_last.before.deleted, vector_last.key)
  /\ vectors[vector_last.key + 1] # vector_last.before.vectors[vector_last.key + 1]

(***************************************************************************)
(* Claims about CardinalityEstimation::is_primary                          *)
(***************************************************************************)
\* the primary clauses of the kind that goes with a condition and equal to
\* it: a field condition, a has-id with the same id set, a has-vector with
\* the same vector name
EqualClauses(clauses, condition) ==
  {k \in 1..Len(clauses) :
     \/ /\ condition.kind = "Field" /\ clauses[k].kind = "Condition"
        /\ clauses[k].field_condition = condition.field_condition
     \/ /\ condition.kind = "HasId" /\ clauses[k].kind = "Ids"
        /\ clauses[k].point_ids = condition.has_id
     \/ /\ condition.kind = "HasVector" /\ clauses[k].kind = "HasVector"
        /\ clauses[k].has_vector = condition.has_vector}

\* C40: is_primary(condition) is true exactly when the primary clauses hold
\* a clause of the same kind equal to the condition; a clause of a
\* different kind never matches, and without primary clauses it is false.
C40_IsPrimaryIffEqualClause ==
  call.fn = "is_primary" =>
    LET clauses == call.estimation.primary_clauses
    IN  /\ call.ret <=> EqualClauses(clauses, call.condition) # {}
        /\ clauses = <<>> => ~call.ret
        /\ call.condition.kind \notin {"Field", "HasId", "HasVector"} => ~call.ret

\* C40 happens: the condition is a has-id that the second primary clause
\* equals, behind a clause of another kind, and is_primary is true.
C40_Witness ==
  /\ call.fn = "is_primary"
  /\ call.ret
  /\ call.condition.kind = "HasId"
  /\ Len(call.estimation.primary_clauses) = 2
  /\ call.estimation.primary_clauses[1].kind # "Ids"
  /\ call.estimation.primary_clauses[2].kind = "Ids"
  /\ call.estimation.primary_clauses[2].resolved_point_offsets # <<>>

====
